---- MODULE Spec2Model ----
(***************************************************************************)
(* A model of crates/language/src/buffer.rs: the Buffer's reparse          *)
(* scheduler, autoindent queue, language-server synchronisation task and   *)
(* diagnostics ingestion.                                                  *)
(*                                                                         *)
(* A handler of the Buffer runs to completion on the foreground thread, so *)
(* each handler is one action.  Handlers call each other recursively       *)
(* (edit -> did_edit -> reparse -> did_finish_parsing -> apply_autoindents *)
(* -> edit ...), so each is first written as an operator from a buffer     *)
(* record to the SET of buffer records it can end in (the choice being the *)
(* outcome of block_with_timeout and the computed indentation map), and    *)
(* the actions commit one element of that set to the variables.            *)
(*                                                                         *)
(* Option<T> is modelled as a sequence: <<>> is None, <<x>> is Some(x).    *)
(***************************************************************************)
EXTENDS Integers, Sequences, FiniteSets, TLC

\* ---------------------------------------------------------------- bounds
\* User edits (edit, undo, redo, apply_ops) are taken, and a reloaded file differs
\* from the buffer, while version < MaxVersion.
MaxVersion == 2
\* set_language is taken while parse_count < MaxParseCount.
MaxParseCount == 2
\* The largest number of rows one computed indentation map re-indents.
MaxIndentRows == 1
\* Snapshots are pushed by user actions while next_version < MaxLspVersion.
MaxLspVersion == 3
\* update_diagnostics is taken while diagnostics_update_count < MaxDiagnosticsUpdates.
MaxDiagnosticsUpdates == 2
\* The document is one line; the text as saved has MaxColumn characters, and every
\* edit since inserts at most one.
MaxColumn == 3
\* The text has at most MaxEdits edits since it was saved.
MaxEdits == 2
\* A list of diagnostics reported against an edited text has at most MaxReported
\* diagnostics, one reported with related information at most MaxRelated.
MaxReported == 2
MaxRelated == 3
\* A call of edit names at most MaxRanges ranges, of offsets 0..MaxOffset; a multimap
\* built from full offset ranges has as many entries at most, of the same offsets.
MaxRanges == 3
MaxOffset == 2
\* suggest_autoindents is asked about rows 0..MaxRow of a tree whose indents query
\* has at most MaxMatches matches.
MaxRow == 2
MaxMatches == 2
\* contiguous_ranges is given at most MaxValues rows, each in 0..MaxRow + 1, and a
\* max_len in 1..MaxValues or the one compute_autoindents passes.
MaxValues == 3

\* At most MaxHandles query cursor handles are alive at once.
MaxHandles == 2

\* A row is indented by at most MaxIndentLevel levels of INDENT_SIZE columns.
MaxIndentLevel == 2

\* The modification times a file handle reports are 1..MaxMtime (0 is UNIX_EPOCH).
MaxMtime == 2
\* file_updated is taken while fewer than MaxReloadTasks reload tasks are pending.
MaxReloadTasks == 1
\* save is taken while fewer than MaxSaveTasks save tasks are pending.
MaxSaveTasks == 1

\* ---------------------------------------------------------------- Option
None == <<>>
Some(x) == <<x>>
IsSome(o) == o # <<>>
Unwrap(o) == o[1]

\* ---------------------------------------------------------------- state
VARIABLES
    \* text core (crates/text): the version vector, as one counter, and its history
    version, undo_stack, redo_stack,
    \* text core: the content, as far as update_diagnostics reads it (the length of
    \* its line and the edits since the saved version); edits made by the handlers
    \* are followed through version alone
    text,
    \* Buffer fields
    file, saved_version, saved_mtime, language, syntax_tree, parsing_in_background, parse_count,
    autoindent_requests, pending_autoindent, diagnostics, diagnostics_update_count,
    language_server,
    \* detached background parse tasks (cx.spawn(..).detach() in reparse)
    parse_tasks,
    \* the _maintain_server task of the attached language server, and what it sent
    maintain_server, notified,
    \* the reload tasks file_updated handed to its caller
    reload_tasks,
    \* the save tasks spawned by save() and not yet complete, each with the version
    \* save() handed to file.save
    save_tasks,
    \* TRUE once a handler panicked (an unwrap/expect failed): the process is gone
    panicked,
    \* the process-wide pool of query cursors (the static QUERY_CURSORS) and the
    \* QueryCursorHandle values alive, each with the cursor inside it
    query_cursors,
    \* what the last handler did: the call and its inputs, its result, the events it
    \* emitted, the operations it forwarded, and logs of the reparse calls, of the
    \* trees committed and of the indentation maps applied or left pending during it,
    \* and the ranges it handed to text.edit, where the model follows them
    call, result, events, operations, reparse_log, commits, autoindents, text_edits,
    \* the edits of the Edit operations it forwarded, in the order it forwarded them:
    \* an edit is named by the version the text core had once it was applied
    edit_operations

vars == <<version, undo_stack, redo_stack, text, file, saved_version, saved_mtime,
          reload_tasks, save_tasks, language, syntax_tree,
          parsing_in_background, parse_count, autoindent_requests, pending_autoindent,
          diagnostics, diagnostics_update_count, language_server, parse_tasks,
          maintain_server, notified, panicked, query_cursors, call, result, events,
          operations, reparse_log, commits, autoindents, text_edits, edit_operations>>

\* The languages a caller may set.  "plain" has no grammar; "rust" and "json" have
\* one; "incompatible" has a grammar whose ts_language the parser rejects.
CompatibleLanguages == {"plain", "rust", "json"}
Languages == CompatibleLanguages \cup {"incompatible"}

\* No query cursor was created yet: the pool is empty (Default::default()), and no
\* handle is alive.
NoQueryCursors == [pool |-> <<>>, handles |-> {}, created |-> 0]

\* The buffer as one record: the variables, plus the open transaction of the text
\* core (no transaction is open between handlers).
State(c) ==
    [version |-> version, undo_stack |-> undo_stack, redo_stack |-> redo_stack,
     transaction_depth |-> 0, transaction_start |-> version,
     text |-> text, file |-> file, saved_version |-> saved_version,
     saved_mtime |-> saved_mtime, reload_tasks |-> reload_tasks,
     save_tasks |-> save_tasks, language |-> language,
     syntax_tree |-> syntax_tree, parsing_in_background |-> parsing_in_background,
     parse_count |-> parse_count, autoindent_requests |-> autoindent_requests,
     pending_autoindent |-> pending_autoindent, diagnostics |-> diagnostics,
     diagnostics_update_count |-> diagnostics_update_count,
     language_server |-> language_server, parse_tasks |-> parse_tasks,
     maintain_server |-> maintain_server, notified |-> notified,
     panicked |-> panicked, query_cursors |-> query_cursors,
     call |-> c, result |-> "ok", events |-> <<>>, operations |-> <<>>,
     reparse_log |-> <<>>, commits |-> <<>>, autoindents |-> <<>>,
     text_edits |-> <<>>, edit_operations |-> <<>>]

Commit(b) ==
    /\ version' = b.version
    /\ undo_stack' = b.undo_stack
    /\ redo_stack' = b.redo_stack
    /\ text' = b.text
    /\ file' = b.file
    /\ saved_version' = b.saved_version
    /\ saved_mtime' = b.saved_mtime
    /\ reload_tasks' = b.reload_tasks
    /\ save_tasks' = b.save_tasks
    /\ language' = b.language
    /\ syntax_tree' = b.syntax_tree
    /\ parsing_in_background' = b.parsing_in_background
    /\ parse_count' = b.parse_count
    /\ autoindent_requests' = b.autoindent_requests
    /\ pending_autoindent' = b.pending_autoindent
    /\ diagnostics' = b.diagnostics
    /\ diagnostics_update_count' = b.diagnostics_update_count
    /\ language_server' = b.language_server
    /\ parse_tasks' = b.parse_tasks
    /\ maintain_server' = b.maintain_server
    /\ notified' = b.notified
    /\ panicked' = b.panicked
    /\ query_cursors' = b.query_cursors
    /\ call' = b.call
    /\ result' = b.result
    /\ events' = b.events
    /\ operations' = b.operations
    /\ reparse_log' = b.reparse_log
    /\ commits' = b.commits
    /\ autoindents' = b.autoindents
    /\ text_edits' = b.text_edits
    /\ edit_operations' = b.edit_operations

\* A failed unwrap()/expect(): the handler unwinds and nothing runs after it.
Panic(b, where) == [b EXCEPT !.panicked = TRUE, !.result = where]

\* Sequential composition of handlers: F is applied to every buffer S can end in,
\* except one that panicked on the way.
Bind(S, F(_)) == UNION { IF x.panicked THEN {x} ELSE F(x) : x \in S }

Emit(b, e) == [b EXCEPT !.events = Append(@, e)]

Count(s, x) == Cardinality({i \in DOMAIN s : s[i] = x})

\* ---------------------------------------------------------------- text core
\* The text core (crates/text) is consumed through version(), edit, undo, redo,
\* apply_ops, start_transaction and end_transaction.  Every edit, undo and redo
\* operation advances the version; a transaction that edited becomes one undo entry.
\* The text record counts the edit operations in the history (edit and apply_ops add
\* to it) and the transactions that are undone at the moment (undo adds, redo removes);
\* two texts over the same base text agree when both counts agree.
text_start_transaction(b) ==
    [b EXCEPT !.transaction_depth = @ + 1,
              !.transaction_start = IF b.transaction_depth = 0 THEN b.version ELSE @]

\* Returns <<buffer, Some(start version)>> when the outermost transaction ends.
text_end_transaction(b) ==
    LET depth == b.transaction_depth - 1
        edited == b.version > b.transaction_start
        b1 == [b EXCEPT !.transaction_depth = depth,
                        !.undo_stack = IF depth = 0 /\ edited THEN @ + 1 ELSE @,
                        !.redo_stack = IF depth = 0 /\ edited THEN 0 ELSE @]
    IN  <<b1, IF depth = 0 THEN Some(b.transaction_start) ELSE None>>

text_edit(b) == [b EXCEPT !.version = @ + 1, !.text.history = @ + 1]

\* text.undo(): the operations that undo the last transaction (none when the undo
\* stack is empty).
text_undo(b) ==
    IF b.undo_stack = 0 THEN <<b, 0>>
    ELSE <<[b EXCEPT !.undo_stack = @ - 1, !.redo_stack = @ + 1, !.version = @ + 1,
                     !.text.undone = @ + 1], 1>>

text_redo(b) ==
    IF b.redo_stack = 0 THEN <<b, 0>>
    ELSE <<[b EXCEPT !.redo_stack = @ - 1, !.undo_stack = @ + 1, !.version = @ + 1,
                     !.text.undone = @ - 1], 1>>

\* text.apply_ops(ops) with n remote edit operations.
text_apply_ops(b, n) == [b EXCEPT !.version = @ + n, !.text.history = @ + n]

\* ---------------------------------------------------------------- Buffer helpers
grammar(b) ==
    IF b.language = None \/ b.language = Some("plain") THEN None ELSE b.language

\* parser.set_language(grammar.ts_language) fails for an incompatible grammar.
parser_accepts(g) == g # "incompatible"

\* Mutant: a deleted file does not make the buffer dirty.
is_dirty_by_version(b) == ~(b.saved_version >= b.version)

is_dirty(b) ==
    \/ ~(b.saved_version >= b.version)
    \/ (IsSome(b.file) /\ Unwrap(b.file).is_deleted)

\* Mutant: every dirty buffer whose file is newer than the last save conflicts.
has_conflict_when_dirty(b) ==
    is_dirty(b) /\ IsSome(b.file) /\ Unwrap(b.file).mtime > b.saved_mtime

has_conflict(b) ==
    /\ ~(b.saved_version >= b.version)
    /\ IsSome(b.file) /\ Unwrap(b.file).mtime > b.saved_mtime

\* syntax_tree(): the stored tree is interpolated through the edits since its
\* version, and its version becomes the buffer's.  parsed_version keeps the version
\* of the text the tree was parsed from.
interpolate_tree(b) ==
    IF b.syntax_tree = None THEN b
    ELSE [b EXCEPT !.syntax_tree = Some([Unwrap(@) EXCEPT !.version = b.version])]

\* Mutant: an operation is handed to nobody.
send_operation_nowhere(b, op) == b

\* Outside of tests an operation is handed to the owning file, when there is one.
send_operation(b, op) ==
    IF IsSome(b.file) THEN [b EXCEPT !.operations = Append(@, op)] ELSE b

\* Operation::Buffer(text::Operation::Edit(edit)) handed to send_operation: the
\* operation carries the edit that text.edit returned.
send_edit_operation(b, applied) ==
    IF IsSome(b.file)
    THEN [send_operation(b, "Edit") EXCEPT !.edit_operations = Append(@, applied)]
    ELSE b

update_language_server(b) ==
    IF b.language_server = None THEN b
    ELSE LET ls == Unwrap(b.language_server)
             snapshot == [version |-> ls.next_version, buffer_version |-> b.version]
         IN  [b EXCEPT !.language_server = Some(
                            [ls EXCEPT !.next_version = @ + 1,
                                       !.pending_snapshots = @ \cup {snapshot},
                                       !.latest_snapshot = Some(snapshot)]),
                       !.maintain_server = [@ EXCEPT !.unseen = TRUE]]

\* compute_autoindents(): Some(future) unless there is no language, no tree or no
\* queued request.  It takes a snapshot first, which interpolates the stored tree.
compute_autoindents(b) ==
    IF b.language = None \/ b.syntax_tree = None \/ b.autoindent_requests = <<>>
    THEN None
    ELSE Some([snapshot_version |-> b.version,
               requests |-> Len(b.autoindent_requests)])

\* One line of the autoindent log: an indentation map, the version of the snapshot it
\* was computed from and the buffer's version when it was applied or left pending,
\* the requests it was computed from and the requests queued at that moment.
LogAutoindent(b, indent_columns, outcome) ==
    [outcome |-> outcome, rows |-> indent_columns.rows,
     snapshot_version |-> indent_columns.snapshot_version, version |-> b.version,
     requests |-> indent_columns.requests, queued |-> b.autoindent_requests]

\* One line of the reparse log: what a call of reparse found and what it left.
LogReparse(b0, b, outcome, ret) ==
    [b EXCEPT !.reparse_log = Append(@,
        [version |-> b0.version,
         was_parsing |-> b0.parsing_in_background,
         outcome |-> outcome,
         ret |-> ret,
         spawned |-> Len(b.parse_tasks) - Len(b0.parse_tasks),
         parse_count_delta |-> b.parse_count - b0.parse_count,
         tree_changed |-> b.syntax_tree # b0.syntax_tree,
         reparsed |-> Count(b.events, "Reparsed") - Count(b0.events, "Reparsed"),
         stored |-> IF Len(b.commits) > Len(b0.commits)
                    THEN Some(b.commits[Len(b0.commits) + 1].version) ELSE None,
         queued |-> Len(b0.autoindent_requests),
         computed |-> Len(b.autoindents) - Len(b0.autoindents),
         nested |-> Len(b.reparse_log) - Len(b0.reparse_log),
         parsing |-> b.parsing_in_background,
         panicked |-> b.panicked])]

\* ---------------------------------------------------------------- handlers
RECURSIVE reparse(_), did_finish_parsing(_, _, _), request_autoindent(_),
          apply_autoindents(_, _), edit_internal(_, _), end_transaction(_),
          did_edit(_, _, _)

\* Mutant: reparse without its early return.
reparse_never_coalesces(b) == FALSE

\* reparse, line 593: a background parse is outstanding.
reparse_coalesces(b) == b.parsing_in_background

\* Mutant: the tree is stored with the saved version instead of the parsed one.
parsed_version_of_last_save(b) == b.saved_version

\* reparse, line 600: the version the parsed text is snapshotted at.
parsed_version(b) == b.version

reparse(b) ==
    IF reparse_coalesces(b) THEN {LogReparse(b, b, "coalesced", FALSE)}
    ELSE IF grammar(b) = None THEN {LogReparse(b, b, "no_grammar", FALSE)}
    ELSE LET g == Unwrap(grammar(b))
             b1 == interpolate_tree(b)
             task == [grammar |-> g, parsed_version |-> parsed_version(b1)]
             \* block_with_timeout returns Ok(new_tree): the parse task ended in time
             in_time == did_finish_parsing(b1, g, task.parsed_version)
             \* block_with_timeout returns Err(parse_task): the parse goes on
             timed_out == [b1 EXCEPT !.parsing_in_background = TRUE,
                                     !.parse_tasks = Append(@, task)]
         IN  (IF parser_accepts(g)
              THEN {LogReparse(b, r, "finished", TRUE) : r \in in_time}
              \* parse_text panics in the parse task, and block_with_timeout with it
              ELSE {LogReparse(b, Panic(b1, "parse_text"), "failed", FALSE)})
             \cup {LogReparse(b, timed_out, "timeout", FALSE)}

\* Mutant: did_finish_parsing does not count the parse.
next_parse_count_unchanged(n) == n

\* did_finish_parsing, line 680.
next_parse_count(n) == n + 1

did_finish_parsing(b, g, v) ==
    LET b1 == [b EXCEPT !.parse_count = next_parse_count(@),
                        !.syntax_tree = Some([grammar |-> g, version |-> v,
                                              parsed_version |-> v]),
                        !.commits = Append(@, [grammar |-> g, version |-> v,
                                               text_version |-> b.version])]
    IN  Bind(request_autoindent(b1), LAMBDA r : {Emit(r, "Reparsed")})

request_autoindent(b) ==
    LET b1 == interpolate_tree(b) IN
    IF compute_autoindents(b) = None THEN {b1}
    ELSE UNION {
           LET indent_columns == [rows |-> rows, snapshot_version |-> b.version,
                                  requests |-> b.autoindent_requests]
           IN  \* block_with_timeout(500us): computed in time, or left pending
               apply_autoindents(b1, indent_columns)
               \cup {[b1 EXCEPT !.pending_autoindent = Some(indent_columns),
                                !.autoindents = Append(@,
                                    LogAutoindent(b1, indent_columns, "pending"))]}
           : rows \in 0..MaxIndentRows }

\* set_indent_column_for_line for n rows whose indentation differs: one edit each.
RECURSIVE set_indent_columns(_, _)
set_indent_columns(S, n) ==
    IF n = 0 THEN S
    ELSE set_indent_columns(Bind(S, LAMBDA x : edit_internal(x, FALSE)), n - 1)

apply_autoindents(b, indent_columns) ==
    LET b1 == [b EXCEPT !.autoindent_requests = <<>>,
                        !.autoindents = Append(@,
                            LogAutoindent(b, indent_columns, "applied"))]
        b2 == text_start_transaction(b1)
    IN  Bind(set_indent_columns({b2}, indent_columns.rows), end_transaction)

\* Mutant: the operation of the edit is forwarded before the transaction ends.
edit_internal_forwarding_first(b, autoindent) ==
    LET b1 == text_start_transaction(b)
        b2 == [b1 EXCEPT !.pending_autoindent = None]
        request == autoindent /\ b2.language # None
        b3 == IF request THEN interpolate_tree(b2) ELSE b2
        b4 == text_edit(b3)
        b5 == IF request
              THEN [b4 EXCEPT !.autoindent_requests =
                                  Append(@, [before_edit |-> b3.version])]
              ELSE b4
    IN  end_transaction(send_edit_operation(b5, b4.version))

edit_internal(b, autoindent) ==
    LET b1 == text_start_transaction(b)
        b2 == [b1 EXCEPT !.pending_autoindent = None]
        request == autoindent /\ b2.language # None
        \* before_edit = self.snapshot()
        b3 == IF request THEN interpolate_tree(b2) ELSE b2
        b4 == text_edit(b3)
        b5 == IF request
              THEN [b4 EXCEPT !.autoindent_requests =
                                  Append(@, [before_edit |-> b3.version])]
              ELSE b4
    IN  Bind(end_transaction(b5), LAMBDA r : {send_edit_operation(r, b4.version)})

end_transaction(b) ==
    LET e == text_end_transaction(b) IN
    IF IsSome(e[2])
    THEN did_edit(e[1], Unwrap(e[2]), Unwrap(e[2]) # b.saved_version)
    ELSE {e[1]}

did_edit(b, old_version, was_dirty) ==
    IF b.version = old_version THEN {b}
    ELSE Bind(reparse(b), LAMBDA r :
           LET r1 == Emit(update_language_server(r), "Edited")
           IN  {IF was_dirty THEN r1 ELSE Emit(r1, "Dirtied")})

\* Mutant: contiguous ranges are not merged.
RECURSIVE coalesce_never(_, _, _)
coalesce_never(ranges_iter, new_text, ranges) ==
    IF ranges_iter = <<>> THEN ranges
    ELSE LET range == Head(ranges_iter)
         IN  coalesce_never(Tail(ranges_iter), new_text,
                 IF new_text # "" \/ range[1] < range[2]
                 THEN Append(ranges, range) ELSE ranges)

\* edit_internal, lines 1241-1257: "skip invalid ranges and coalesce contiguous
\* ones".  ranges_iter is what is left of the caller's ranges, ranges the vector
\* built so far; a range is <<start, end>>.
RECURSIVE coalesce(_, _, _)
coalesce(ranges_iter, new_text, ranges) ==
    IF ranges_iter = <<>> THEN ranges
    ELSE LET range == Head(ranges_iter)
             n == Len(ranges)
         IN  coalesce(Tail(ranges_iter), new_text,
                 IF new_text # "" \/ range[1] < range[2]
                 THEN IF n > 0 /\ ranges[n][2] >= range[1]
                      THEN [ranges EXCEPT ![n] =
                               <<@[1], IF @[2] >= range[2] THEN @[2] ELSE range[2]>>]
                      ELSE Append(ranges, range)
                 ELSE ranges)

\* edit / edit_with_autoindent with the ranges and the text of the caller: the
\* ranges left are handed to text.edit.
edit_ranges(b, ranges_iter, new_text, autoindent) ==
    LET ranges == coalesce(ranges_iter, new_text, <<>>)
    IN  IF ranges = <<>> THEN {b}
        ELSE edit_internal([b EXCEPT !.text_edits = Append(@, ranges)], autoindent)

\* edit / edit_with_autoindent.  With no effective range the call returns at once.
edit(b, autoindent, effective) ==
    IF effective THEN edit_internal(b, autoindent) ELSE {b}

undo(b) ==
    LET was_dirty == is_dirty(b)
        u == text_undo(b)
        b1 == IF u[2] > 0 THEN send_operation(u[1], "Undo") ELSE u[1]
    IN  did_edit(b1, b.version, was_dirty)

redo(b) ==
    LET was_dirty == is_dirty(b)
        u == text_redo(b)
        b1 == IF u[2] > 0 THEN send_operation(u[1], "Redo") ELSE u[1]
    IN  did_edit(b1, b.version, was_dirty)

apply_diagnostic_update(b, d) ==
    [b EXCEPT !.diagnostics = d, !.diagnostics_update_count = @ + 1]

\* apply_ops with n remote edit operations and an optional UpdateDiagnostics.
apply_ops(b, n, d) ==
    LET b1 == [b EXCEPT !.pending_autoindent = None]
        was_dirty == is_dirty(b1)
        b2 == IF IsSome(d) THEN apply_diagnostic_update(b1, Unwrap(d)) ELSE b1
    IN  did_edit(text_apply_ops(b2, n), b.version, was_dirty)

NoServerTask == [alive |-> FALSE, unseen |-> FALSE, prev_snapshot |-> None]

set_language(b, new_language, server) ==
    LET b1 == [b EXCEPT
                 !.language = new_language,
                 !.language_server =
                     IF server
                     THEN Some([pending_snapshots |-> {}, next_version |-> 0,
                                latest_snapshot |-> None])
                     ELSE None,
                 \* the old _maintain_server task is dropped with the old state
                 !.maintain_server =
                     IF server
                     THEN [alive |-> TRUE, unseen |-> FALSE, prev_snapshot |-> None]
                     ELSE NoServerTask,
                 !.notified = <<>>]
    IN  Bind(reparse(b1), LAMBDA r : {update_language_server(r)})

\* did_save(version, mtime, new_file).  With a language server attached it sends
\* DidSave for the path of the file, which it unwraps.
did_save(b, ver, mtime, new_file) ==
    LET b1 == [b EXCEPT !.saved_mtime = mtime, !.saved_version = ver,
                        !.file = IF IsSome(new_file) THEN new_file ELSE @]
    IN  IF IsSome(b1.language_server) /\ b1.file = None
        THEN Panic(b1, "did_save")
        ELSE Emit(b1, "Saved")

\* File::save(buffer_id, text, version): the version and the modification time the
\* save resolves to, when the file was written at mtime.
file_save(ver, mtime) == <<ver, mtime>>

\* save(): Err without a file; else the text and the version are captured and
\* handed to file.save, and a task is spawned that awaits it.
save(b) ==
    IF b.file = None THEN [b EXCEPT !.result = "Err(buffer has no file)"]
    ELSE [b EXCEPT !.save_tasks = Append(@, [version |-> b.version])]

\* Mutant: the save task records the version the buffer has when it completes.
save_completed_at_current_version(b, task, saved, mtime) ==
    IF ~saved THEN [b EXCEPT !.result = "Err(save)"]
    ELSE did_save(b, b.version, file_save(task.version, mtime)[2], None)

\* The task of save(), lines 366-372: `save.await?` ends it when the save failed;
\* else did_save is called with what the save resolved to.
save_completed(b, task, saved, mtime) ==
    IF ~saved THEN [b EXCEPT !.result = "Err(save)"]
    ELSE LET resolved == file_save(task.version, mtime)
         IN  did_save(b, resolved[1], resolved[2], None)

\* file_updated(new_file): the events, the new file handle, and the reload task
\* handed to the caller when a clean buffer's file changed on disk.
file_updated(b, new_file) ==
    IF b.file = None THEN b
    ELSE LET old_file == Unwrap(b.file)
             newly_deleted == new_file.is_deleted /\ ~old_file.is_deleted
             new_mtime == ~new_file.is_deleted /\ new_file.mtime # old_file.mtime
             file_changed == \/ new_file.path # old_file.path
                             \/ newly_deleted
                             \/ new_mtime
             b1 == IF newly_deleted /\ ~is_dirty(b) THEN Emit(b, "Dirtied") ELSE b
             b2 == IF new_mtime /\ ~is_dirty(b)
                   THEN [b1 EXCEPT !.reload_tasks = Append(@,
                            [new_mtime |-> new_file.mtime, spawned_at |-> b.version])]
                   ELSE b1
             b3 == IF file_changed THEN Emit(b2, "FileHandleChanged") ELSE b2
         IN  [b3 EXCEPT !.file = Some(new_file)]

\* apply_diff for a diff of n changed spans computed at base_version: <<buffers,
\* applied>>.
apply_diff(b, base_version, n) ==
    IF b.version = base_version
    THEN <<Bind(set_indent_columns({text_start_transaction(b)}, n), end_transaction),
           TRUE>>
    ELSE <<{b}, FALSE>>

\* The task of file_updated, lines 527-546, for text that was loaded (or not) and
\* diffed against the buffer at base_version.
reload_completed(b, task, loaded, base_version, n) ==
    IF ~loaded THEN {b}
    ELSE LET d == apply_diff(b, base_version, n)
         IN  IF d[2]
             THEN Bind(d[1], LAMBDA r :
                     {Emit([r EXCEPT !.saved_version = r.version,
                                     !.saved_mtime = task.new_mtime], "Reloaded")})
             ELSE d[1]

\* Mutants: the completion parses again only after an edit (a changed grammar is
\* missed), or always parses again.
parse_again_on_edit_only(b, task) == b.version > task.parsed_version
parse_again_always(b, task) == TRUE

\* reparse, lines 619-622: decided when the background parse completes.
parse_again(b, task) ==
    LET grammar_changed == grammar(b) = None \/ Unwrap(grammar(b)) # task.grammar
    IN  b.version > task.parsed_version \/ grammar_changed

\* The detached task of reparse, lines 616-630, once parse_task has ended.
background_parse_completed(b, task) ==
    IF ~parser_accepts(task.grammar) THEN {Panic(b, "parse_text")}
    ELSE LET again == parse_again(b, task)
             b1 == [b EXCEPT !.parsing_in_background = FALSE]
         IN  Bind(did_finish_parsing(b1, task.grammar, task.parsed_version),
                  LAMBDA r : IF again THEN reparse(r) ELSE {r})

\* The task of request_autoindent, lines 855-860, once indent_columns is computed.
\* The finished task stays in pending_autoindent until the next take(); it can do
\* nothing more, and is modelled as None.
pending_autoindent_completed(b) ==
    apply_autoindents([b EXCEPT !.pending_autoindent = None],
                      Unwrap(b.pending_autoindent))

\* ---------------------------------------------------------------- diagnostics
\* A position is a column of the document's one line, a range is <<start, end>>.
\* A reported diagnostic is [range, source, code, severity, related, message]:
\* severity is None or Some(1..4) (1 is Error), related is the sequence of its
\* related-information locations [uri, range], message tells the diagnostics of
\* one list apart.

\* text core: clip_point_utf16 brings a position into the line.
clip_point_utf16(content, column) ==
    IF column > content.len THEN content.len ELSE column

\* The disk-based diagnostic sources of the language's configuration.
\* Every language of the model configures the source "compiler" as disk-based.
disk_based_diagnostic_sources(l) == IF l = None THEN {} ELSE {"compiler"}

\* file.abs_path() of the buffer's file.
abs_path(b) == IF IsSome(b.file) THEN Some(Unwrap(b.file).path) ELSE None

\* diagnostics.sort_unstable_by_key(|d| (d.range.start, d.range.end)): the order of
\* diagnostics with the same range is the one the sort happens to leave, the same
\* for the same list; here, the order of the list.
RangeBefore(r, q) == r[1] < q[1] \/ (r[1] = q[1] /\ r[2] < q[2])

RECURSIVE sort_by_range(_)
sort_by_range(ds) ==
    IF ds = <<>> THEN <<>>
    ELSE LET sorted == sort_by_range(SubSeq(ds, 1, Len(ds) - 1))
             d == ds[Len(ds)]
             k == Cardinality({j \in DOMAIN sorted :
                                  ~RangeBefore(d.range, sorted[j].range)})
         IN  SubSeq(sorted, 1, k) \o <<d>> \o SubSeq(sorted, k + 1, Len(sorted))

\* diagnostic_ranges: the related-information ranges located in this file, then the
\* diagnostic's own range.
diagnostic_ranges(d, path) ==
    LET in_file(info) == IsSome(path) /\ info.uri = Unwrap(path)
        here == SelectSeq(d.related, in_file)
    IN  [k \in 1..Len(here) |-> here[k].range] \o <<d.range>>

\* Mutant: a diagnostic is grouped by its own range alone.
own_range_only(d, path) == <<d.range>>

\* Mutant: an edit that ends where the diagnostic starts is not passed over.
RECURSIVE skip_edits_before(_, _, _, _, _, _)
skip_edits_before(edits, k, last_edit_old_end, last_edit_new_end, start, end) ==
    IF k > Len(edits)
    THEN [edit |-> k, last_edit_old_end |-> last_edit_old_end,
          last_edit_new_end |-> last_edit_new_end, stale |-> FALSE]
    ELSE IF edits[k].old[2] < start
    THEN skip_edits_before(edits, k + 1, edits[k].old[2], edits[k].new[2], start, end)
    ELSE [edit |-> k, last_edit_old_end |-> last_edit_old_end,
          last_edit_new_end |-> last_edit_new_end,
          stale |-> edits[k].old[1] <= end /\ edits[k].old[2] >= start]

\* update_diagnostics, lines 744-754: the walk over edits_since_save for a disk-based
\* diagnostic at start..end, from edit k on.  stale: the diagnostic is left out.
RECURSIVE skip_edits(_, _, _, _, _, _)
skip_edits(edits, k, last_edit_old_end, last_edit_new_end, start, end) ==
    IF k > Len(edits)
    THEN [edit |-> k, last_edit_old_end |-> last_edit_old_end,
          last_edit_new_end |-> last_edit_new_end, stale |-> FALSE]
    ELSE IF edits[k].old[2] <= start
    THEN skip_edits(edits, k + 1, edits[k].old[2], edits[k].new[2], start, end)
    ELSE [edit |-> k, last_edit_old_end |-> last_edit_old_end,
          last_edit_new_end |-> last_edit_new_end,
          stale |-> edits[k].old[1] <= end /\ edits[k].old[2] >= start]

\* Mutant: a zero-width range is stored as it is.
widen_never(content, range) == range

\* update_diagnostics, lines 760-769: a zero-width range is widened by one column.
widen(content, range) ==
    IF range[1] # range[2] THEN range
    ELSE LET end == clip_point_utf16(content, range[2] + 1)
         IN  IF range[1] = end /\ end > 0
             THEN <<clip_point_utf16(content, range[1] - 1), end>>
             ELSE <<range[1], end>>

\* Mutant: a disk-based position is stored where it was reported.
remap_nowhere(last_edit_old_end, last_edit_new_end, column) == column

\* update_diagnostics, lines 756-757.
remap(last_edit_old_end, last_edit_new_end, column) ==
    last_edit_new_end + (column - last_edit_old_end)

\* Mutant: the severity of the diagnostic is ignored.
severity_ignored(d) == 1

\* update_diagnostics, line 776: diagnostic.severity.unwrap_or(ERROR).
severity_of(d) == IF IsSome(d.severity) THEN Unwrap(d.severity) ELSE 1

\* update_diagnostics, lines 713-784: the loop over the sorted diagnostics from the
\* i-th on.  acc holds the position in edits_since_save, last_edit_old_end,
\* last_edit_new_end, group_ids_by_diagnostic_range, next_group_id and the entries
\* pushed so far.
RECURSIVE resolve_diagnostics(_, _, _, _)
resolve_diagnostics(env, ds, i, acc) ==
    IF i > Len(ds) THEN acc
    ELSE
    LET d == ds[i]
        ranges == diagnostic_ranges(d, env.abs_path)
        key(r) == <<d.source, d.code, r>>
        known == {k \in DOMAIN ranges : key(ranges[k]) \in DOMAIN acc.group_ids}
        first == CHOOSE k \in known : \A j \in known : k <= j
        group_id == IF known # {} THEN acc.group_ids[key(ranges[first])]
                    ELSE acc.next_group_id
        keys == {key(ranges[k]) : k \in DOMAIN ranges}
        group_ids == IF known # {} THEN acc.group_ids
                     ELSE [x \in DOMAIN acc.group_ids \cup keys |->
                              IF x \in DOMAIN acc.group_ids THEN acc.group_ids[x]
                              ELSE group_id]
        acc1 == [acc EXCEPT !.group_ids = group_ids,
                            !.next_group_id = IF known # {} THEN @ ELSE @ + 1]
        disk_based == d.source \in env.disk_based_sources
        walk == IF disk_based
                THEN skip_edits(env.edits, acc.edit, acc.last_edit_old_end,
                                acc.last_edit_new_end, d.range[1], d.range[2])
                ELSE [edit |-> acc.edit, last_edit_old_end |-> acc.last_edit_old_end,
                      last_edit_new_end |-> acc.last_edit_new_end, stale |-> FALSE]
        acc2 == [acc1 EXCEPT !.edit = walk.edit,
                             !.last_edit_old_end = walk.last_edit_old_end,
                             !.last_edit_new_end = walk.last_edit_new_end]
        start == IF disk_based
                 THEN remap(walk.last_edit_old_end, walk.last_edit_new_end, d.range[1])
                 ELSE d.range[1]
        end == IF disk_based
               THEN remap(walk.last_edit_old_end, walk.last_edit_new_end, d.range[2])
               ELSE d.range[2]
        range == widen(env.content, <<clip_point_utf16(env.content, start),
                                      clip_point_utf16(env.content, end)>>)
        entry == [range |-> range, severity |-> severity_of(d),
                  message |-> d.message, group_id |-> group_id, is_primary |-> FALSE]
    IN  IF walk.stale
        THEN resolve_diagnostics(env, ds, i + 1, acc2)
        ELSE resolve_diagnostics(env, ds, i + 1,
                                 [acc2 EXCEPT !.entries = Append(@, entry)])

\* Mutant: every entry of a group is flagged primary.
flag_all_primary(group) == [k \in DOMAIN group |-> [group[k] EXCEPT !.is_primary = TRUE]]

\* update_diagnostics, lines 786-797: in every group the first entry of the lowest
\* severity value becomes the primary one.
flag_primary(group) ==
    LET lowest == CHOOSE k \in DOMAIN group :
                     /\ \A j \in DOMAIN group : group[k].severity <= group[j].severity
                     /\ \A j \in 1..(k - 1) : group[j].severity > group[k].severity
    IN  [k \in DOMAIN group |-> [group[k] EXCEPT !.is_primary = (k = lowest)]]

\* The orders in which a HashMap may yield the groups.
Orders(S) ==
    {o \in [1..Cardinality(S) -> S] : \A x \in S : \E k \in DOMAIN o : o[k] = x}

RECURSIVE Flatten(_)
Flatten(ss) == IF ss = <<>> THEN <<>> ELSE Head(ss) \o Flatten(Tail(ss))

\* The order the entries of a multimap are kept in: by start, and by end, the longer
\* range first, where the starts are equal.
InSortOrder(a, b) ==
    \/ a.range[1] < b.range[1]
    \/ a.range[1] = b.range[1] /\ a.range[2] >= b.range[2]

\* content.anchor_range_multimap(start_bias, end_bias, entries): the entries are
\* sorted on insertion; entries with the same range end up in any order.
anchor_range_multimap(entries) ==
    {[k \in DOMAIN entries |-> entries[o[k]]] :
        o \in {p \in Orders(DOMAIN entries) :
                  \A k \in 1..(Len(entries) - 1) :
                     InSortOrder(entries[p[k]], entries[p[k + 1]])}}

\* Mutant: the entries of the call are added to the entries stored before.
diagnostic_entries_added(b, content, ds) ==
    LET acc == resolve_diagnostics(
                   [content |-> content, edits |-> content.edits_since_save,
                    abs_path |-> abs_path(b),
                    disk_based_sources |-> disk_based_diagnostic_sources(b.language)],
                   sort_by_range(ds), 1,
                   [edit |-> 1, last_edit_old_end |-> 0, last_edit_new_end |-> 0,
                    group_ids |-> <<>>, next_group_id |-> 0, entries |-> <<>>])
    IN  {b.diagnostics.entries \o flag_primary(acc.entries)}

\* update_diagnostics, lines 705-797: the overlays the call may store for the list
\* ds, resolved against content.  The groups come in the order
\* diagnostics_by_group_id.into_values() yields them in, and the multimap sorts them.
diagnostic_entries(b, content, ds) ==
    LET env == [content |-> content, edits |-> content.edits_since_save,
                abs_path |-> abs_path(b),
                disk_based_sources |-> disk_based_diagnostic_sources(b.language)]
        acc == resolve_diagnostics(env, sort_by_range(ds), 1,
                   [edit |-> 1, last_edit_old_end |-> 0, last_edit_new_end |-> 0,
                    group_ids |-> <<>>, next_group_id |-> 0, entries |-> <<>>])
        ids == {acc.entries[k].group_id : k \in DOMAIN acc.entries}
        is_in(g) == LET of_group(e) == e.group_id = g IN SelectSeq(acc.entries, of_group)
    IN  UNION {anchor_range_multimap(Flatten([k \in DOMAIN o |-> flag_primary(is_in(o[k]))])) :
                  o \in Orders(ids)}

\* Mutant: the snapshot of the consumed version is pruned with the older ones.
snapshots_after(pending_snapshots, v) == {s \in pending_snapshots : s.version > v}

\* update_diagnostics, lines 799-809: the snapshots left once pending_snapshots
\* .range(..version) is removed.
snapshots_from(pending_snapshots, v) == {s \in pending_snapshots : ~(s.version < v)}

\* Mutant: a successful update_diagnostics does not count.
next_update_count_unchanged(n) == n

\* update_diagnostics, line 811.
next_update_count(n) == n + 1

\* update_diagnostics(version, diagnostics) with the list d.  The edits of the model
\* leave text alone, so the text of a pending snapshot is b.text.
update_diagnostics(b, ver, d) ==
    IF IsSome(ver) /\ b.language_server = None
    THEN {Panic(b, "update_diagnostics")}
    ELSE LET ls == Unwrap(b.language_server)
             found == IF IsSome(ver)
                      THEN {s \in ls.pending_snapshots : s.version = Unwrap(ver)}
                      ELSE {}
         IN  IF IsSome(ver) /\ found = {}
             THEN {[b EXCEPT !.result = "Err(missing snapshot)"]}
             ELSE LET content == IF IsSome(ver)
                                 THEN (CHOOSE s \in found : TRUE).buffer_version
                                 ELSE b.version
                      b1(entries) ==
                          [b EXCEPT !.diagnostics =
                              [input |-> d, content |-> content, entries |-> entries]]
                      b2(entries) ==
                          IF IsSome(ver)
                          THEN [b1(entries) EXCEPT !.language_server = Some(
                                  [ls EXCEPT !.pending_snapshots =
                                     snapshots_from(@, Unwrap(ver))])]
                          ELSE b1(entries)
                      b3(entries) ==
                          [b2(entries) EXCEPT !.diagnostics_update_count =
                                                 next_update_count(@)]
                  IN  {Emit(b3(entries), "DiagnosticsUpdated") :
                          entries \in diagnostic_entries(b, b.text, d)}

\* Mutant: the task never remembers the snapshot it sent.
next_prev_snapshot_kept(prev, snapshot) == prev

\* _maintain_server, line 451: the snapshot the next DidChange is computed against.
next_prev_snapshot(prev, snapshot) == Some(snapshot)

\* One turn of the loop of _maintain_server, lines 392-452: the value in the watch
\* channel is received and notified; ok is whether server.notify succeeded.
maintain_server_step(b, ok) ==
    LET ls == Unwrap(b.language_server)
        snapshot == Unwrap(ls.latest_snapshot)
        prev == b.maintain_server.prev_snapshot
        notification ==
            [kind |-> IF IsSome(prev) THEN "DidChange" ELSE "DidOpen",
             version |-> snapshot.version,
             buffer_version |-> snapshot.buffer_version,
             since |-> IF IsSome(prev) THEN Some(Unwrap(prev).buffer_version) ELSE None,
             prev_version |-> IF IsSome(prev) THEN Some(Unwrap(prev).version) ELSE None]
    IN  IF ok
        THEN [b EXCEPT !.notified = Append(@, notification),
                       !.maintain_server =
                           [@ EXCEPT !.unseen = FALSE,
                                     !.prev_snapshot = next_prev_snapshot(prev, snapshot)]]
        ELSE [b EXCEPT !.maintain_server = [@ EXCEPT !.alive = FALSE,
                                                     !.unseen = FALSE]]

\* ---------------------------------------------------------------- actions
\* The base text: one line of MaxColumn characters, nothing edited.
BaseText == [len |-> MaxColumn, edits_since_save |-> <<>>, history |-> 0, undone |-> 0]

\* Buffer::new -> Buffer::build.
Init ==
    /\ version = 0 /\ undo_stack = 0 /\ redo_stack = 0 /\ text = BaseText
    /\ file = None /\ saved_version = 0 /\ saved_mtime = 0 /\ reload_tasks = <<>>
    /\ language = None /\ syntax_tree = None
    /\ parsing_in_background = FALSE /\ parse_count = 0
    /\ autoindent_requests = <<>> /\ pending_autoindent = None
    /\ diagnostics = [input |-> <<>>, content |-> 0, entries |-> <<>>] /\ diagnostics_update_count = 0
    /\ language_server = None /\ parse_tasks = <<>>
    /\ maintain_server = NoServerTask /\ notified = <<>>
    /\ panicked = FALSE /\ query_cursors = NoQueryCursors /\ edit_operations = <<>> /\ save_tasks = <<>>
    /\ call = [op |-> "new", args |-> <<>>] /\ result = "ok"
    /\ events = <<>> /\ operations = <<>> /\ reparse_log = <<>>
    /\ commits = <<>> /\ autoindents = <<>> /\ text_edits = <<>>

\* The callers of the buffer stop within the bounds; background tasks do not.
CanEdit ==
    /\ ~panicked
    /\ version < MaxVersion
    /\ IsSome(language_server) => Unwrap(language_server).next_version < MaxLspVersion

Edit ==
    /\ CanEdit
    /\ \E autoindent \in BOOLEAN, effective \in BOOLEAN :
         \E b \in edit(State([op |-> "edit", args |-> <<autoindent, effective>>]),
                       autoindent, effective) : Commit(b)

Undo ==
    /\ CanEdit
    /\ \E b \in undo(State([op |-> "undo", args |-> <<>>])) : Commit(b)

Redo ==
    /\ CanEdit
    /\ \E b \in redo(State([op |-> "redo", args |-> <<>>])) : Commit(b)

PlainDiagnostic(i) ==
    [range |-> <<0, 1>>, source |-> "lsp", code |-> "E", severity |-> None,
     related |-> <<>>, message |-> i]

\* The list a language server publishes where the ranges are of no interest.
DiagnosticInputs == {<<PlainDiagnostic(1)>>}

\* The diagnostics another replica stored for these lists and broadcast.
RemoteDiagnostics ==
    UNION {{[input |-> d, content |-> 0, entries |-> e] :
              e \in diagnostic_entries([file |-> None, language |-> Some("plain")],
                                       BaseText, d)} : d \in DiagnosticInputs}

\* Operations of another replica: n edits, and an UpdateDiagnostics out of updates.
ApplyOpsOf(updates) ==
    /\ CanEdit
    /\ diagnostics_update_count < MaxDiagnosticsUpdates
    /\ \E n \in 0..1, d \in {None} \cup {Some(u) : u \in updates} :
         \E b \in apply_ops(State([op |-> "apply_ops", args |-> <<n, d>>]), n, d) :
            Commit(b)

SetLanguageTo(languages, servers) ==
    /\ ~panicked
    /\ parse_count < MaxParseCount
    /\ \E l \in {None} \cup {Some(x) : x \in languages}, server \in servers :
         \E b \in set_language(State([op |-> "set_language", args |-> <<l, server>>]),
                               l, server) : Commit(b)

ParseComplete ==
    /\ ~panicked
    /\ \E i \in DOMAIN parse_tasks :
         LET task == parse_tasks[i]
             rest == [j \in 1..(Len(parse_tasks) - 1) |->
                         IF j < i THEN parse_tasks[j] ELSE parse_tasks[j + 1]]
             b0 == [State([op |-> "parse_complete", args |-> <<task>>])
                       EXCEPT !.parse_tasks = rest]
         IN  \E b \in background_parse_completed(b0, task) : Commit(b)

AutoindentComplete ==
    /\ ~panicked
    /\ IsSome(pending_autoindent)
    /\ \E b \in pending_autoindent_completed(
                    State([op |-> "autoindent_complete",
                           args |-> <<Unwrap(pending_autoindent)>>])) : Commit(b)

UpdateDiagnostics ==
    /\ ~panicked
    /\ diagnostics_update_count < MaxDiagnosticsUpdates
    /\ \E ver \in {None} \cup {Some(v) : v \in 0..MaxLspVersion},
          d \in DiagnosticInputs :
         \E b \in update_diagnostics(
                     State([op |-> "update_diagnostics", args |-> <<ver, d>>]),
                     ver, d) : Commit(b)

MaintainServer ==
    /\ ~panicked
    /\ maintain_server.alive /\ maintain_server.unseen
    /\ \E ok \in BOOLEAN :
         Commit(maintain_server_step(
                    State([op |-> "maintain_server", args |-> <<ok>>]), ok))

\* The file handles a worktree may hand to the buffer.
Files == [path : {"a.rs", "b.rs"}, mtime : 1..MaxMtime, is_deleted : BOOLEAN]

\* Buffer::new or Buffer::from_file -> Buffer::build.
FileInit ==
    /\ version = 0 /\ undo_stack = 0 /\ redo_stack = 0 /\ text = BaseText
    /\ file \in {None} \cup {Some(f) : f \in Files}
    /\ saved_version = 0
    /\ saved_mtime = IF IsSome(file) THEN Unwrap(file).mtime ELSE 0
    /\ reload_tasks = <<>>
    /\ language = None /\ syntax_tree = None
    /\ parsing_in_background = FALSE /\ parse_count = 0
    /\ autoindent_requests = <<>> /\ pending_autoindent = None
    /\ diagnostics = [input |-> <<>>, content |-> 0, entries |-> <<>>] /\ diagnostics_update_count = 0
    /\ language_server = None /\ parse_tasks = <<>>
    /\ maintain_server = NoServerTask /\ notified = <<>>
    /\ panicked = FALSE /\ query_cursors = NoQueryCursors /\ edit_operations = <<>> /\ save_tasks = <<>>
    /\ call = [op |-> "build", args |-> <<>>] /\ result = "ok"
    /\ events = <<>> /\ operations = <<>> /\ reparse_log = <<>>
    /\ commits = <<>> /\ autoindents = <<>> /\ text_edits = <<>>

\* The completion of save(), or a save reported by the host of the buffer: the
\* version saved is one the buffer has had, and a new file handle is that of the
\* file just written: it reports the modification time of the save, and the file
\* is not deleted.
DidSave ==
    /\ ~panicked
    /\ \E ver \in 0..version, mtime \in 1..MaxMtime :
       \E new_file \in {None} \cup {Some(f) : f \in {g \in Files : g.mtime = mtime /\ ~g.is_deleted}} :
         Commit(did_save(State([op |-> "did_save", args |-> <<ver, mtime, new_file>>]),
                         ver, mtime, new_file))

Save ==
    /\ ~panicked
    /\ Len(save_tasks) < MaxSaveTasks
    /\ Commit(save(State([op |-> "save", args |-> <<>>])))

\* The save tasks are independent: they complete in any order.
SaveComplete ==
    /\ ~panicked
    /\ \E i \in DOMAIN save_tasks, saved \in BOOLEAN, mtime \in 1..MaxMtime :
         LET task == save_tasks[i]
             b0 == [State([op |-> "save_completed", args |-> <<task.version, saved, mtime>>])
                       EXCEPT !.save_tasks = SubSeq(@, 1, i - 1) \o SubSeq(@, i + 1, Len(@))]
         IN  Commit(save_completed(b0, task, saved, mtime))

FileUpdated ==
    /\ ~panicked
    /\ Len(reload_tasks) < MaxReloadTasks
    /\ \E new_file \in Files :
         Commit(file_updated(State([op |-> "file_updated", args |-> <<new_file>>]),
                             new_file))

ReloadComplete ==
    /\ ~panicked
    /\ reload_tasks # <<>>
    /\ LET task == Head(reload_tasks) IN
       \E loaded \in BOOLEAN, base_version \in task.spawned_at..version,
          n \in 0..(IF version < MaxVersion THEN 1 ELSE 0) :
         LET b0 == [State([op |-> "reload_complete",
                           args |-> <<task, loaded, base_version, n>>])
                       EXCEPT !.reload_tasks = Tail(@)]
         IN  \E b \in reload_completed(b0, task, loaded, base_version, n) : Commit(b)

\* The edits since the text was saved, as the text core reports them: in order,
\* apart from each other, none empty.  An edit replaces start..end of the saved text
\* by len characters.
RECURSIVE edits_since(_, _)
edits_since(es, delta) ==
    IF es = <<>> THEN <<>>
    ELSE LET e == Head(es)
             new_start == e.start + delta
         IN  <<[old |-> <<e.start, e.end>>, new |-> <<new_start, new_start + e.len>>]>>
             \o edits_since(Tail(es), delta + e.len - (e.end - e.start))

EditLists ==
    LET Edits == {e \in [start : 0..MaxColumn, end : 0..MaxColumn, len : 0..1] :
                     e.start <= e.end /\ (e.start < e.end \/ e.len > 0)}
    IN  UNION {{es \in [1..n -> Edits] :
                   \A k \in 1..(n - 1) : es[k].end < es[k + 1].start} : n \in 0..MaxEdits}

EditedText(es) ==
    LET edits == edits_since(es, 0)
    IN  [len |-> IF es = <<>> THEN MaxColumn
                 ELSE MaxColumn + edits[Len(es)].new[2] - edits[Len(es)].old[2],
         edits_since_save |-> edits, history |-> Len(es), undone |-> 0]

Ranges == {r \in (0..MaxColumn) \X (0..MaxColumn) : r[1] <= r[2]}

\* The lists of at most max diagnostics out of D, the i-th with the message i.
Lists(D, max) ==
    UNION {{[i \in 1..n |-> [f[i] EXCEPT !.message = i]] : f \in [1..n -> D]} :
             n \in 0..max}

\* The lists a language server reports against an edited text: diagnostics of the
\* disk-based sources and of another one, none with related information.
ReportedLists(disk_based_sources) ==
    Lists([range : Ranges, source : disk_based_sources \cup {"lsp"}, code : {"E"},
           severity : {None}, related : {<<>>}, message : {0}], MaxReported)

\* The lists a language server reports with related information: diagnostics of
\* one source and code, of two severities, on unit ranges, each with no related
\* location, one in the file at path or one in another file.
RelatedLists(path) ==
    LET Units == {<<c, c + 1>> : c \in 0..(MaxColumn - 2)}
    IN  Lists([range : Units, source : {"lsp"}, code : {"E"},
               severity : {None, Some(2)},
               related : {<<>>} \cup {<<[uri |-> path, range |-> r]>> : r \in Units}
                                \cup {<<[uri |-> "b.rs", range |-> <<0, 1>>]>>},
               message : {0}], MaxRelated)

\* A buffer of the file a.rs with a language that has no grammar, edited since it
\* was saved, or unedited; no diagnostics were stored yet.
DiagInit ==
    /\ undo_stack = 0 /\ redo_stack = 0
    /\ text \in {EditedText(es) : es \in EditLists}
    /\ version = Len(text.edits_since_save)
    /\ file = Some([path |-> "a.rs", mtime |-> 1, is_deleted |-> FALSE])
    /\ saved_version = 0 /\ saved_mtime = 1 /\ reload_tasks = <<>>
    /\ language = Some("plain") /\ syntax_tree = None
    /\ parsing_in_background = FALSE /\ parse_count = 0
    /\ autoindent_requests = <<>> /\ pending_autoindent = None
    /\ diagnostics = [input |-> <<>>, content |-> 0, entries |-> <<>>] /\ diagnostics_update_count = 0
    /\ language_server = None /\ parse_tasks = <<>>
    /\ maintain_server = NoServerTask /\ notified = <<>>
    /\ panicked = FALSE /\ query_cursors = NoQueryCursors /\ edit_operations = <<>> /\ save_tasks = <<>>
    /\ call = [op |-> "build", args |-> <<>>] /\ result = "ok"
    /\ events = <<>> /\ operations = <<>> /\ reparse_log = <<>>
    /\ commits = <<>> /\ autoindents = <<>> /\ text_edits = <<>>

\* update_diagnostics(None, d) with the first list reported for the text.
ReportDiagnostics ==
    /\ diagnostics_update_count = 0
    /\ \E d \in ReportedLists(disk_based_diagnostic_sources(language))
                 \cup (IF text.edits_since_save = <<>>
                       THEN RelatedLists(Unwrap(file).path) ELSE {}) :
         \E b \in update_diagnostics(
                     State([op |-> "update_diagnostics", args |-> <<None, d>>]),
                     None, d) : Commit(b)

\* update_diagnostics(None, d) with the list of the previous call, reported again.
ReportDiagnosticsAgain ==
    /\ diagnostics_update_count > 0
    /\ diagnostics_update_count < MaxDiagnosticsUpdates
    /\ \E b \in update_diagnostics(
                  State([op |-> "update_diagnostics",
                         args |-> <<None, diagnostics.input>>]),
                  None, diagnostics.input) : Commit(b)

\* The ranges a caller of edit names, in any order.
RangeLists ==
    LET Offsets == {r \in (0..MaxOffset) \X (0..MaxOffset) : r[1] <= r[2]}
    IN  UNION {[1..n -> Offsets] : n \in 0..MaxRanges}

\* A buffer without language, with a file or without one.
EditInit ==
    /\ version = 0 /\ undo_stack = 0 /\ redo_stack = 0 /\ text = BaseText
    /\ file \in {None, Some([path |-> "a.rs", mtime |-> 1, is_deleted |-> FALSE])}
    /\ saved_version = 0
    /\ saved_mtime = IF IsSome(file) THEN Unwrap(file).mtime ELSE 0
    /\ reload_tasks = <<>>
    /\ language = None /\ syntax_tree = None
    /\ parsing_in_background = FALSE /\ parse_count = 0
    /\ autoindent_requests = <<>> /\ pending_autoindent = None
    /\ diagnostics = [input |-> <<>>, content |-> 0, entries |-> <<>>] /\ diagnostics_update_count = 0
    /\ language_server = None /\ parse_tasks = <<>>
    /\ maintain_server = NoServerTask /\ notified = <<>>
    /\ panicked = FALSE /\ query_cursors = NoQueryCursors /\ edit_operations = <<>> /\ save_tasks = <<>>
    /\ call = [op |-> "build", args |-> <<>>] /\ result = "ok"
    /\ events = <<>> /\ operations = <<>> /\ reparse_log = <<>>
    /\ commits = <<>> /\ autoindents = <<>> /\ text_edits = <<>>

\* The first call on the buffer: edit or edit_with_autoindent with any ranges.
EditRanges ==
    /\ CanEdit
    /\ call.op = "build"
    /\ \E ranges_iter \in RangeLists, new_text \in {"", "x"}, autoindent \in BOOLEAN :
         \E b \in edit_ranges(State([op |-> "edit",
                                      args |-> <<ranges_iter, new_text, autoindent>>]),
                               ranges_iter, new_text, autoindent) : Commit(b)

\* ---------------------------------------------------------------- interval multimap
\* FullOffset::MAX, past every offset of the model.
FullOffsetMAX == MaxOffset + 1

\* sum_tree::Item::summary of an entry, and the summary of no entries.
entry_summary(e) ==
    [start |-> e.range[1], end |-> e.range[2],
     min_start |-> e.range[1], max_end |-> e.range[2], count |-> 1]

DefaultSummary ==
    [start |-> 0, end |-> FullOffsetMAX, min_start |-> FullOffsetMAX, max_end |-> 0,
     count |-> 0]

\* Mutant: max_end is the end of the last entry.
add_summary_last_end(self, other) ==
    [start |-> other.start, end |-> other.end,
     min_start |-> IF self.min_start <= other.min_start THEN self.min_start
                   ELSE other.min_start,
     max_end |-> other.end,
     count |-> self.count + other.count]

\* Summary::add_summary, without its assertion.
add_summary(self, other) ==
    [start |-> other.start, end |-> other.end,
     min_start |-> IF self.min_start <= other.min_start THEN self.min_start
                   ELSE other.min_start,
     max_end |-> IF self.max_end >= other.max_end THEN self.max_end ELSE other.max_end,
     count |-> self.count + other.count]

\* The assertion of add_summary, compiled under debug_assertions.
add_summary_asserts(self, other) ==
    /\ self.start <= other.start
    /\ self.start = other.start => self.end >= other.end

\* The summary of a run of entries: the summaries of its entries, added up from
\* the left.
RECURSIVE summarize(_, _)
summarize(summary, entries) ==
    IF entries = <<>> THEN summary
    ELSE summarize(add_summary(summary, entry_summary(Head(entries))), Tail(entries))

\* Whether every assertion holds while the summaries of entries are added up.
RECURSIVE summarize_asserts(_, _)
summarize_asserts(summary, entries) ==
    \/ entries = <<>>
    \/ /\ add_summary_asserts(summary, entry_summary(Head(entries)))
       /\ summarize_asserts(add_summary(summary, entry_summary(Head(entries))),
                            Tail(entries))

\* AnchorRangeMultimap::from_full_offset_ranges: SumTree::from_iter of the entries in
\* the order they come in.  A build with debug_assertions panics on an assertion of
\* add_summary that fails; a build without keeps the entries as they are.
from_full_offset_ranges(b, entries, debug_assertions) ==
    IF debug_assertions /\ ~summarize_asserts(DefaultSummary, entries)
    THEN Panic(b, "add_summary")
    ELSE apply_diagnostic_update(b, [input |-> <<>>, content |-> b.version,
                                     entries |-> entries])

\* The closure intersecting_ranges filters the tree by, lines 376-395, for a multimap
\* of the version of the snapshot: whether a summary may hold an entry for range.
filter_summary(summary, range, inclusive) ==
    IF inclusive
    THEN range[1] <= summary.max_end /\ range[2] >= summary.min_start
    ELSE range[1] < summary.max_end /\ range[2] > summary.min_start

\* The filter cursor of the tree over entries, the first of them the ix-th entry of
\* the multimap: a subtree the closure rejects is not entered, and an entry it
\* accepts is yielded.  The tree halves its entries at every level.
RECURSIVE filter_cursor(_, _, _, _)
filter_cursor(entries, ix, range, inclusive) ==
    IF entries = <<>> THEN <<>>
    ELSE IF ~filter_summary(summarize(DefaultSummary, entries), range, inclusive)
    THEN <<>>
    ELSE IF Len(entries) = 1
    THEN <<[ix |-> ix, range |-> entries[1].range, value |-> entries[1].value]>>
    ELSE LET half == Len(entries) \div 2
         IN  filter_cursor(SubSeq(entries, 1, half), ix, range, inclusive)
             \o filter_cursor(SubSeq(entries, half + 1, Len(entries)), ix + half,
                              range, inclusive)

\* AnchorRangeMultimap::intersecting_ranges, lines 357-421.
intersecting_ranges(multimap, range, inclusive) ==
    filter_cursor(multimap.entries, 0, range, inclusive)

\* The entries a peer may send: any ranges in any order, the k-th with the value k.
EntryLists == {[k \in DOMAIN ranges |-> [range |-> ranges[k], value |-> k]] :
                 ranges \in RangeLists}

\* The diagnostics of a peer arrive and are built into a multimap.
FromFullOffsetRanges ==
    /\ ~panicked
    /\ diagnostics_update_count = 0
    /\ \E entries \in EntryLists, debug_assertions \in BOOLEAN :
         Commit(from_full_offset_ranges(
                    State([op |-> "from_full_offset_ranges",
                           args |-> <<entries, debug_assertions>>]),
                    entries, debug_assertions))

\* The multimap just built is queried.
IntersectingRanges ==
    /\ ~panicked
    /\ call.op = "from_full_offset_ranges"
    /\ \E range \in {r \in (0..MaxOffset) \X (0..MaxOffset) : r[1] <= r[2]},
          inclusive \in BOOLEAN :
         Commit([State([op |-> "intersecting_ranges", args |-> <<range, inclusive>>])
                    EXCEPT !.result = intersecting_ranges(diagnostics, range, inclusive)])

\* ---------------------------------------------------------------- anchors
\* The text of a snapshot is a sequence of fragments, one per character ever
\* inserted: the version that inserted it (0 for the base text) and whether it is
\* deleted by now.  A full offset of version v counts the fragments v has seen.
ObservedBy(fragment, v) == fragment.insertion <= v

RECURSIVE observed_before(_, _, _)
observed_before(fragments, i, v) ==
    IF i = 0 THEN 0
    ELSE observed_before(fragments, i - 1, v)
         + (IF ObservedBy(fragments[i], v) THEN 1 ELSE 0)

RECURSIVE visible_before(_, _)
visible_before(fragments, i) ==
    IF i = 0 THEN 0
    ELSE visible_before(fragments, i - 1) + (IF fragments[i].deleted THEN 0 ELSE 1)

\* Anchor::min() and Anchor::max(), lines 70-84.
AnchorMin == [full_offset |-> 0, bias |-> "Left", version |-> 0]
\* Mutant: Anchor::max() is the Right anchor at offset 0.
AnchorMax_at_zero == [full_offset |-> 0, bias |-> "Right", version |-> 0]
AnchorMax == [full_offset |-> FullOffsetMAX, bias |-> "Right", version |-> 0]

\* snapshot.full_offset_for_anchor(anchor): the number of fragments before the place
\* of the anchor.  The places where the fragments the anchor's version has seen
\* count up to its full offset are those around the insertions made there since; a
\* Left anchor stays before them and a Right anchor moves after them.
full_offset_for_anchor(snapshot, anchor) ==
    LET fragments == snapshot.fragments
        seen == observed_before(fragments, Len(fragments), anchor.version)
        offset == IF anchor.full_offset > seen THEN seen ELSE anchor.full_offset
        places == {i \in 0..Len(fragments) :
                     observed_before(fragments, i, anchor.version) = offset}
    IN  IF anchor.bias = "Left"
        THEN CHOOSE i \in places : \A j \in places : i <= j
        ELSE CHOOSE i \in places : \A j \in places : i >= j

\* snapshot.summary_for_anchor(anchor), as an offset into the visible text.
summary_for_anchor(snapshot, anchor) ==
    visible_before(snapshot.fragments, full_offset_for_anchor(snapshot, anchor))

\* Ord::cmp of two offsets and of two biases (Left < Right).
cmp_offset(x, y) == IF x < y THEN "Less" ELSE IF x = y THEN "Equal" ELSE "Greater"
cmp_bias(x, y) ==
    IF x = y THEN "Equal" ELSE IF x = "Left" THEN "Less" ELSE "Greater"

\* Anchor::cmp, lines 86-100.
cmp(self, other, buffer) ==
    IF self = other THEN "Equal"
    ELSE LET offset_comparison ==
                 IF self.version = other.version
                 THEN cmp_offset(self.full_offset, other.full_offset)
                 ELSE cmp_offset(full_offset_for_anchor(buffer, self),
                                 full_offset_for_anchor(buffer, other))
         IN  IF offset_comparison # "Equal" THEN offset_comparison
             ELSE cmp_bias(self.bias, other.bias)

\* Anchor::summary, lines 118-123.
summary(anchor, content) == summary_for_anchor(content, anchor)

\* buffer.snapshot(): the text at its version.
snapshot(b) == [version |-> b.version, fragments |-> b.text.fragments]

\* The anchors callers may hold: min, max, and an anchor of either bias made at any
\* version so far at any full offset of that version.
Anchors(content) ==
    {AnchorMin, AnchorMax}
    \cup UNION {[full_offset : 0..observed_before(content.fragments,
                                                  Len(content.fragments), v),
                 bias : {"Left", "Right"}, version : {v}] : v \in 0..content.version}

\* text.edit inserting one character before the i-th place, and text.edit deleting
\* the i-th fragment.
text_insert(b, i) ==
    LET fragments == b.text.fragments
        inserted == [insertion |-> b.version + 1, deleted |-> FALSE]
    IN  [text_edit(b) EXCEPT !.text.fragments =
            SubSeq(fragments, 1, i) \o <<inserted>>
            \o SubSeq(fragments, i + 1, Len(fragments))]

text_delete(b, i) == [text_edit(b) EXCEPT !.text.fragments[i].deleted = TRUE]

\* A buffer of one character that anchors are made in.
AnchorInit ==
    /\ version = 0 /\ undo_stack = 0 /\ redo_stack = 0
    /\ text = [len |-> 1, edits_since_save |-> <<>>, history |-> 0, undone |-> 0,
               fragments |-> <<[insertion |-> 0, deleted |-> FALSE]>>,
               snapshot |-> None]
    /\ file = None /\ saved_version = 0 /\ saved_mtime = 0 /\ reload_tasks = <<>>
    /\ language = None /\ syntax_tree = None
    /\ parsing_in_background = FALSE /\ parse_count = 0
    /\ autoindent_requests = <<>> /\ pending_autoindent = None
    /\ diagnostics = [input |-> <<>>, content |-> 0, entries |-> <<>>] /\ diagnostics_update_count = 0
    /\ language_server = None /\ parse_tasks = <<>>
    /\ maintain_server = NoServerTask /\ notified = <<>>
    /\ panicked = FALSE /\ query_cursors = NoQueryCursors /\ edit_operations = <<>> /\ save_tasks = <<>>
    /\ call = [op |-> "new", args |-> <<>>] /\ result = "ok"
    /\ events = <<>> /\ operations = <<>> /\ reparse_log = <<>>
    /\ commits = <<>> /\ autoindents = <<>> /\ text_edits = <<>>

\* The text is edited, while no anchor was compared or resolved yet.
EditsText == call.op \in {"new", "insert", "delete", "snapshot"} /\ version < MaxVersion

InsertCharacter ==
    /\ EditsText
    /\ \E i \in 0..Len(text.fragments) :
         Commit(text_insert(State([op |-> "insert", args |-> <<i>>]), i))

DeleteCharacter ==
    /\ EditsText
    /\ \E i \in {j \in DOMAIN text.fragments : ~text.fragments[j].deleted} :
         Commit(text_delete(State([op |-> "delete", args |-> <<i>>]), i))

\* Two anchors are compared against the snapshot of the text.
CompareAnchors ==
    /\ call.op \in {"new", "insert", "delete"}
    /\ LET b == State(call)
       IN  \E self \in Anchors(snapshot(b)), other \in Anchors(snapshot(b)) :
             Commit([State([op |-> "cmp", args |-> <<self, other>>])
                        EXCEPT !.result = cmp(self, other, snapshot(b))])

\* A caller keeps a snapshot of the text.
TakeSnapshot ==
    /\ call.op \in {"new", "insert", "delete"}
    /\ LET b == State([op |-> "snapshot", args |-> <<>>])
       IN  Commit([b EXCEPT !.text.snapshot = Some(snapshot(b))])

\* An anchor is resolved against the snapshot kept and against the text as it is.
ResolveAnchor ==
    /\ call.op \in {"insert", "delete", "snapshot"}
    /\ IsSome(text.snapshot)
    /\ LET b == State(call)
           kept == Unwrap(text.snapshot)
       IN  \E anchor \in Anchors(kept) :
             Commit([State([op |-> "summary", args |-> <<anchor>>])
                        EXCEPT !.result = [kept |-> summary(anchor, kept),
                                           now |-> summary(anchor, snapshot(b))]])

\* ---------------------------------------------------------------- range map
\* content.anchor_at(offset, bias) in a text nothing was deleted from.
anchor_at(content, offset, bias) ==
    [full_offset |-> offset, bias |-> bias, version |-> content.version]

\* slice::binary_search_by(f) over 1..n, as the index the slice is cut at: the index
\* of an element f is Equal at, whichever of them the search hits, and else the
\* number of elements f is Less at.
binary_search_by(n, f(_)) ==
    IF \E k \in 1..n : f(k) = "Equal"
    THEN {k - 1 : k \in {j \in 1..n : f(j) = "Equal"}}
    ELSE {Cardinality({k \in 1..n : f(k) = "Less"})}

\* AnchorRangeMap::intersecting_ranges, lines 206-238: the ranges of the entries from
\* start_ix on, zipped with the values of the entries from the first one on.
range_map_intersecting_ranges(map, range, content) ==
    LET start == anchor_at(content, range.start[1], range.start[2])
        probe(k) == cmp([full_offset |-> map.entries[k].range[2],
                         bias |-> map.start_bias, version |-> map.version],
                        start, content)
    IN  {[j \in 1..(Len(map.entries) - start_ix) |->
            [range |-> map.entries[start_ix + j].range, value |-> map.entries[j].value]] :
         start_ix \in binary_search_by(Len(map.entries), probe)}

\* The range maps of a text nothing was edited in: entries in the order of their
\* ends, the k-th with the value k.
RangeMaps ==
    {[version |-> 0, start_bias |-> start_bias, entries |-> entries] :
        start_bias \in {"Left", "Right"},
        entries \in {e \in EntryLists :
                       \A k \in 1..(Len(e) - 1) : e[k].range[2] <= e[k + 1].range[2]}}

\* A range map is queried for the entries that intersect a range.
RangeMapIntersectingRanges ==
    /\ call.op = "new"
    /\ \E map \in RangeMaps,
          r \in {x \in (0..MaxOffset) \X (0..MaxOffset) : x[1] <= x[2]},
          start_bias \in {"Left", "Right"}, end_bias \in {"Left", "Right"} :
         LET range == [start |-> <<r[1], start_bias>>, end |-> <<r[2], end_bias>>]
             content == [version |-> 0,
                         fragments |-> [i \in 1..MaxOffset |->
                                          [insertion |-> 0, deleted |-> FALSE]]]
         IN  \E found \in range_map_intersecting_ranges(map, range, content) :
               Commit([State([op |-> "AnchorRangeMap::intersecting_ranges",
                              args |-> <<map, range>>])
                          EXCEPT !.result = found])

\* ---------------------------------------------------------------- indentation
\* const INDENT_SIZE, line 50.
INDENT_SIZE == 4

\* u32::MAX, past every row of the model.
RowMAX == MaxRow + 1

\* A point is <<row, column>>; points are ordered by row and then by column.
PointBefore(p, q) == p[1] < q[1] \/ (p[1] = q[1] /\ p[2] < q[2])

\* suggest_autoindents, lines 1550-1564: the range of a match goes into the vector
\* kept sorted by start, unless it starts and ends on one row; a range that starts
\* where one of the vector starts extends that one.
insert_indentation_range(indentation_ranges, range) ==
    IF range.start[1] = range.end[1] THEN indentation_ranges
    ELSE IF \E ix \in DOMAIN indentation_ranges :
               indentation_ranges[ix].start = range.start
    THEN LET ix == CHOOSE i \in DOMAIN indentation_ranges :
                      indentation_ranges[i].start = range.start
         IN  [indentation_ranges EXCEPT ![ix].end =
                 IF PointBefore(@, range.end) THEN range.end ELSE @]
    ELSE LET ix == Cardinality({i \in DOMAIN indentation_ranges :
                       PointBefore(indentation_ranges[i].start, range.start)})
         IN  SubSeq(indentation_ranges, 1, ix) \o <<range>>
             \o SubSeq(indentation_ranges, ix + 1, Len(indentation_ranges))

RECURSIVE collect_indentation_ranges(_, _)
collect_indentation_ranges(matches, indentation_ranges) ==
    IF matches = <<>> THEN indentation_ranges
    ELSE collect_indentation_ranges(Tail(matches),
             insert_indentation_range(indentation_ranges, Head(matches)))

\* The loop over indentation_ranges for one row, lines 1570-1583, from the ix-th
\* range on: acc is <<indent_from_prev_row, outdent_to_row>>.
RECURSIVE scan_indentation_ranges(_, _, _, _, _, _)
scan_indentation_ranges(indentation_ranges, ix, row, prev_row, row_start, acc) ==
    IF ix > Len(indentation_ranges) THEN acc
    ELSE LET range == indentation_ranges[ix] IN
         IF range.start[1] >= row THEN acc
         ELSE scan_indentation_ranges(indentation_ranges, ix + 1, row, prev_row,
                  row_start,
                  <<acc[1] \/ (range.start[1] = prev_row
                               /\ PointBefore(row_start, range.end)),
                    IF range.end[1] >= prev_row /\ ~PointBefore(row_start, range.end)
                       /\ range.start[1] < acc[2]
                    THEN range.start[1] ELSE acc[2]>>)

\* Mutant: a region that still encloses the row decides before any outdent.
choose_suggestion_indent_first(indent_from_prev_row, outdent_to_row, prev_row) ==
    IF indent_from_prev_row THEN [basis_row |-> prev_row, indent |-> TRUE]
    ELSE IF outdent_to_row < prev_row
    THEN [basis_row |-> outdent_to_row, indent |-> FALSE]
    ELSE [basis_row |-> prev_row, indent |-> FALSE]

\* The suggestion for one row, lines 1585-1605.
choose_suggestion(indent_from_prev_row, outdent_to_row, prev_row) ==
    IF outdent_to_row = prev_row THEN [basis_row |-> prev_row, indent |-> FALSE]
    ELSE IF indent_from_prev_row THEN [basis_row |-> prev_row, indent |-> TRUE]
    ELSE IF outdent_to_row < prev_row
    THEN [basis_row |-> outdent_to_row, indent |-> FALSE]
    ELSE [basis_row |-> prev_row, indent |-> FALSE]

\* row_range.map(..), lines 1566-1609: the rows from row on, of the indent columns
\* indent_columns, each with the row before it as prev_row once the first is done.
RECURSIVE suggest_rows(_, _, _, _)
suggest_rows(indentation_ranges, row, prev_row, indent_columns) ==
    IF indent_columns = <<>> THEN <<>>
    ELSE LET row_start == <<row, Head(indent_columns)>>
             found == scan_indentation_ranges(indentation_ranges, 1, row, prev_row,
                                              row_start, <<FALSE, RowMAX>>)
         IN  <<choose_suggestion(found[1], found[2], prev_row)>>
             \o suggest_rows(indentation_ranges, row + 1, row, Tail(indent_columns))

\* Snapshot::suggest_autoindents(row_range) of a snapshot with a grammar and a tree:
\* matches are the ranges of the matches of the indents query, lines the rows of
\* row_range with their indent column and whether they are blank, and
\* prev_non_blank_row what prev_non_blank_row(row_range.start) returns.
suggest_autoindents(matches, row_range_start, prev_non_blank_row, lines) ==
    suggest_rows(collect_indentation_ranges(matches, <<>>), row_range_start,
                 IF IsSome(prev_non_blank_row) THEN Unwrap(prev_non_blank_row) ELSE 0,
                 [k \in DOMAIN lines |-> lines[k].indent])

\* The matches of an indents query: at most max ranges between the points of the
\* rows 0..MaxRow at the columns 0 and INDENT_SIZE, in any order.
MatchLists(max) ==
    LET Points == (0..MaxRow) \X {0, INDENT_SIZE}
        Matches == {m \in [start : Points, end : Points] : PointBefore(m.start, m.end)}
    IN  UNION {[1..n -> Matches] : n \in 0..max}

\* The rows asked about: the row row_range_start and, unless it is the last row,
\* the row after it; the first of two rows may be blank, and is empty then.
LineLists(row_range_start) ==
    LET Line == [indent : {0, INDENT_SIZE}, blank : {FALSE}]
        Blank == [indent |-> 0, blank |-> TRUE]
    IN  IF row_range_start < MaxRow
        THEN {<<l, m>> : l \in Line \cup {Blank}, m \in Line}
        ELSE {<<l>> : l \in Line}

\* compute_autoindents asks a snapshot for the suggestions of a range of rows.
SuggestAutoindents ==
    /\ call.op = "new"
    /\ \E matches \in MatchLists(MaxMatches), row_range_start \in 0..MaxRow :
         \E prev_non_blank_row \in
                {None} \cup {Some(r) : r \in 0..(row_range_start - 1)},
            lines \in LineLists(row_range_start) :
           Commit([State([op |-> "suggest_autoindents",
                          args |-> <<matches, row_range_start, prev_non_blank_row,
                                    lines>>])
                      EXCEPT !.result = suggest_autoindents(
                                 matches, row_range_start, prev_non_blank_row, lines)])

\* ---------------------------------------------------------------- chunking
\* compute_autoindents yields to the executor after every chunk of this many rows.
max_rows_between_yields == 100

\* Mutant: the current range grows whatever its length.
range_extends_unbounded(range, value, max_len) == value = range[2]

\* contiguous_ranges extends the current range by the next value when the value
\* continues the range and the range is shorter than max_len (lines 1979-1982).
range_extends(range, value, max_len) ==
    value = range[2] /\ range[2] - range[1] < max_len

\* The closure of from_fn, called until it returns None: current_range, and the
\* ranges returned so far.  A range start..end is the pair <<start, end>>.
RECURSIVE contiguous_scan(_, _, _, _)
contiguous_scan(values, max_len, current_range, yielded) ==
    IF values = <<>>
    THEN IF IsSome(current_range)
         THEN Append(yielded, Unwrap(current_range)) ELSE yielded
    ELSE LET value == Head(values)
         IN  IF IsSome(current_range)
                /\ range_extends(Unwrap(current_range), value, max_len)
             THEN contiguous_scan(Tail(values), max_len,
                      Some(<<Unwrap(current_range)[1], Unwrap(current_range)[2] + 1>>),
                      yielded)
             ELSE contiguous_scan(Tail(values), max_len, Some(<<value, value + 1>>),
                      IF IsSome(current_range)
                      THEN Append(yielded, Unwrap(current_range)) ELSE yielded)

contiguous_ranges(values, max_len) == contiguous_scan(values, max_len, None, <<>>)

\* The sequences of at most max rows, in any order and with repetitions.
ValueLists(max) == UNION {[1..n -> 0..RowMAX] : n \in 0..max}

\* contiguous_ranges is called on some rows with some max_len.
ContiguousRanges ==
    /\ call.op = "new"
    /\ \E values \in ValueLists(MaxValues),
          max_len \in (1..MaxValues) \cup {max_rows_between_yields} :
         Commit([State([op |-> "contiguous_ranges", args |-> <<values, max_len>>])
                    EXCEPT !.result = contiguous_ranges(values, max_len)])

\* ---------------------------------------------------------------- query cursors
\* The ranges of a cursor that is not restricted: 0..usize::MAX, and
\* Point::zero()..Point::MAX (by its rows).
FullByteRange == <<0, FullOffsetMAX>>
FullPointRange == <<0, RowMAX>>

\* QueryCursor::new(): a cursor of its own identity, restricted to nothing.
QueryCursor_new(q) ==
    [id |-> q.created + 1, byte_range |-> FullByteRange, point_range |-> FullPointRange]

\* QueryCursorHandle::new(), under the lock of the pool: the cursor pushed last, or a
\* new one when the pool is empty.
QueryCursorHandle_new(q, handle, user) ==
    IF q.pool = <<>>
    THEN [q EXCEPT !.created = @ + 1,
                   !.handles = @ \cup {[handle |-> handle, user |-> user,
                                        cursor |-> QueryCursor_new(q)]}]
    ELSE [q EXCEPT !.pool = SubSeq(@, 1, Len(@) - 1),
                   !.handles = @ \cup {[handle |-> handle, user |-> user,
                                        cursor |-> q.pool[Len(q.pool)]]}]

\* deref_mut().set_byte_range(..) and set_point_range(..) on the cursor of a handle.
set_byte_range(q, h, range) ==
    [q EXCEPT !.handles = (@ \ {h}) \cup {[h EXCEPT !.cursor.byte_range = range]}]

set_point_range(q, h, range) ==
    [q EXCEPT !.handles = (@ \ {h}) \cup {[h EXCEPT !.cursor.point_range = range]}]

\* Mutant: the cursor goes back to the pool as its user left it.
drop_as_left(q, h) ==
    [q EXCEPT !.handles = @ \ {h}, !.pool = Append(@, h.cursor)]

\* Drop for QueryCursorHandle: the cursor is taken out of the handle, its ranges are
\* reset, and it is pushed on the pool under the lock.
drop(q, h) ==
    [q EXCEPT !.handles = @ \ {h},
              !.pool = Append(@, [h.cursor EXCEPT !.byte_range = FullByteRange,
                                                  !.point_range = FullPointRange])]

\* The functions that take a cursor: enclosing_bracket_ranges and chunks restrict
\* its byte range, suggest_autoindents its point range.
CursorUsers == {"enclosing_bracket_ranges", "suggest_autoindents", "chunks"}

\* Some function, on some thread, takes a cursor.  A handle is named by the least
\* number no handle alive has.
NewQueryCursorHandle ==
    /\ Cardinality(query_cursors.handles) < MaxHandles
    /\ \E handle \in {k \in 1..MaxHandles :
                        \A j \in 1..k :
                            (j \in {h.handle : h \in query_cursors.handles}) <=> j < k},
          user \in CursorUsers :
         Commit([State([op |-> "QueryCursorHandle::new", args |-> <<handle, user>>])
                    EXCEPT !.query_cursors =
                               QueryCursorHandle_new(query_cursors, handle, user)])

\* The function that holds a handle restricts its cursor, once, before it runs
\* its query.
RestrictQueryCursor ==
    \E h \in query_cursors.handles :
        \/ /\ h.user \in {"enclosing_bracket_ranges", "chunks"}
           /\ h.cursor.byte_range = FullByteRange
           /\ \E range \in {r \in (0..MaxOffset) \X (0..MaxOffset) : r[1] <= r[2]} :
                Commit([State([op |-> "set_byte_range", args |-> <<h.handle, range>>])
                           EXCEPT !.query_cursors =
                                      set_byte_range(query_cursors, h, range)])
        \/ /\ h.user = "suggest_autoindents"
           /\ h.cursor.point_range = FullPointRange
           /\ \E range \in {r \in (0..MaxRow) \X (0..MaxRow) : r[1] <= r[2]} :
                Commit([State([op |-> "set_point_range", args |-> <<h.handle, range>>])
                           EXCEPT !.query_cursors =
                                      set_point_range(query_cursors, h, range)])

\* The function that holds a handle returns, early or not, or unwinds.
DropQueryCursorHandle ==
    \E h \in query_cursors.handles :
        Commit([State([op |-> "drop",
                       args |-> <<h.handle, h.cursor.id,
                                  h.cursor.byte_range # FullByteRange>>])
                   EXCEPT !.query_cursors = drop(query_cursors, h)])

\* ---------------------------------------------------------------- applying indentation
\* A document by its rows, for apply_autoindents: indents[row + 1] is the number of
\* spaces row starts with, and one character follows them.  selections are the
\* selections of the one selection set the queued requests name, each a start and an
\* end <<row, column>>, kept as anchors of one bias.  edits logs the transaction depth
\* each text edit was made at, transactions counts the outermost transactions ended.
indent_column_for_line(doc, row) == doc.indents[row + 1]

\* The text core inserts n spaces at column 0 of row: an anchor behind column 0 moves
\* right, one at column 0 stays (bias Left) or moves right (bias Right).
insert_spaces(doc, row, n) ==
    LET moved(p) == IF p[1] = row /\ (p[2] > 0 \/ doc.bias = "Right")
                    THEN <<row, p[2] + n>> ELSE p
    IN  [doc EXCEPT !.indents[row + 1] = @ + n,
                    !.selections = [k \in DOMAIN @ |->
                                      [start |-> moved(@[k].start), end |-> moved(@[k].end)]],
                    !.edits = Append(@, doc.transaction_depth + 1)]

\* The text core deletes columns 0..n of row: an anchor inside them ends at column 0,
\* one behind them moves left.
delete_columns(doc, row, n) ==
    LET moved(p) == IF p[1] # row THEN p
                    ELSE IF p[2] <= n THEN <<row, 0>> ELSE <<row, p[2] - n>>
    IN  [doc EXCEPT !.indents[row + 1] = @ - n,
                    !.selections = [k \in DOMAIN @ |->
                                      [start |-> moved(@[k].start), end |-> moved(@[k].end)]],
                    !.edits = Append(@, doc.transaction_depth + 1)]

\* set_indent_column_for_line: spaces are inserted at column 0 or the excess is
\* deleted, each by an edit of its own; a row at its column is left alone.
set_indent_column_for_line(doc, row, column) ==
    LET current_column == indent_column_for_line(doc, row)
    IN  IF column > current_column
        THEN insert_spaces(doc, row, column - current_column)
        ELSE IF column < current_column
        THEN delete_columns(doc, row, current_column - column)
        ELSE doc

\* The loop over the map, in the order of the rows.
RECURSIVE set_indent_column_for_lines(_, _)
set_indent_column_for_lines(doc, indent_columns) ==
    IF DOMAIN indent_columns = {} THEN doc
    ELSE LET row == CHOOSE r \in DOMAIN indent_columns :
                        \A s \in DOMAIN indent_columns : r <= s
         IN  set_indent_column_for_lines(
                 set_indent_column_for_line(doc, row, indent_columns[row]),
                 [r \in DOMAIN indent_columns \ {row} |-> indent_columns[r]])

\* The new selections of a set: a selection that now starts at column 0 of a row of
\* the map moves right, start and end, by the column the map has for the row.
new_selections(doc, indent_columns) ==
    [k \in DOMAIN doc.selections |->
        LET selection == doc.selections[k]
            delta == IF selection.start[1] \in DOMAIN indent_columns
                     THEN indent_columns[selection.start[1]] ELSE 0
        IN  IF selection.start[2] = 0 /\ delta > 0
            THEN [start |-> <<selection.start[1], selection.start[2] + delta>>,
                  end |-> <<selection.end[1], selection.end[2] + delta>>]
            ELSE selection]

\* apply_autoindents, lines 989-1027, on the rows of the document: the transaction,
\* the edits of the rows and the selections of the set.
apply_autoindents_rows(doc, indent_columns) ==
    LET d1 == [doc EXCEPT !.transaction_depth = @ + 1]
        d2 == set_indent_column_for_lines(d1, indent_columns)
        d3 == [d2 EXCEPT !.selections = new_selections(d2, indent_columns)]
    IN  [d3 EXCEPT !.transaction_depth = @ - 1,
                   !.transactions = IF d3.transaction_depth = 1 THEN @ + 1 ELSE @]

IndentColumns == {l * INDENT_SIZE : l \in 0..MaxIndentLevel}

\* The documents of rows 0..MaxIndentRows, with one selection or none.
Documents ==
    LET Rows == 0..MaxIndentRows
        Selections ==
            {<<>>} \cup {<<[start |-> <<r, c>>, end |-> <<r, c + n>>]>> :
                            r \in Rows, c \in {0, 1}, n \in {0, 1}}
    IN  [indents : [1..(MaxIndentRows + 1) -> IndentColumns],
         selections : Selections, bias : {"Left", "Right"},
         transaction_depth : {0}, transactions : {0}, edits : {<<>>}]

\* The indentation maps compute_autoindents can return: a column for at most
\* MaxIndentRows of the rows.
IndentMaps ==
    UNION {[rows -> IndentColumns] :
             rows \in {R \in SUBSET (0..MaxIndentRows) : Cardinality(R) <= MaxIndentRows}}

\* apply_autoindents is called with a computed map.
ApplyAutoindents ==
    /\ call.op = "new"
    /\ \E doc \in {d \in Documents :
                     \A k \in DOMAIN d.selections :
                        d.selections[k].end[2] <= d.indents[d.selections[k].end[1] + 1] + 1},
          indent_columns \in IndentMaps :
         Commit([State([op |-> "apply_autoindents", args |-> <<doc, indent_columns>>])
                    EXCEPT !.result = apply_autoindents_rows(doc, indent_columns)])

\* ---------------------------------------------------------------- computing indentation
\* The future of compute_autoindents, by the rows of the requests.  A snapshot is the
\* suggestion suggest_autoindents has for each row (none at all without a syntax
\* tree) and the indent column of each row; a request is its before_edit snapshot,
\* the rows of its edited positions before and after the edit, and the rows of its
\* inserted ranges, if any.  A map of rows is a function on the rows it has.
Put(map, key, value) ==
    [k \in DOMAIN map \cup {key} |-> IF k = key THEN value ELSE map[k]]

NoRows == [k \in {} |-> 0]

\* The rows of the chunks contiguous_ranges cuts a sequence of rows into, in order.
RECURSIVE chunk_rows(_)
chunk_rows(ranges) ==
    IF ranges = <<>> THEN <<>>
    ELSE [i \in 1..(ranges[1][2] - ranges[1][1]) |-> ranges[1][1] + i - 1]
             \o chunk_rows(Tail(ranges))

\* The keys of a map of rows, and its values in the order of the keys.
RECURSIVE row_keys(_)
row_keys(map) ==
    IF DOMAIN map = {} THEN <<>>
    ELSE LET row == CHOOSE r \in DOMAIN map : \A s \in DOMAIN map : r <= s
         IN  <<row>> \o row_keys([k \in DOMAIN map \ {row} |-> map[k]])

row_values(map) == [i \in DOMAIN row_keys(map) |-> map[row_keys(map)[i]]]

\* Lines 892-917: the indentation suggested for the edited rows against the snapshot
\* before the edit, by the row each has after the edit.
RECURSIVE old_suggestions_of(_, _, _)
old_suggestions_of(request, old_rows, old_suggestions) ==
    IF old_rows = <<>> \/ request.before_edit.suggestions = None THEN old_suggestions
    ELSE LET old_row == Head(old_rows)
             suggestion == Unwrap(request.before_edit.suggestions)[old_row + 1]
             from_row == IF suggestion.basis_row \in DOMAIN request.old_to_new_rows
                         THEN Some(request.old_to_new_rows[suggestion.basis_row])
                         ELSE None
             indentation_basis ==
                 IF IsSome(from_row) /\ Unwrap(from_row) \in DOMAIN old_suggestions
                 THEN old_suggestions[Unwrap(from_row)]
                 ELSE request.before_edit.indents[suggestion.basis_row + 1]
             delta == IF suggestion.indent THEN INDENT_SIZE ELSE 0
         IN  old_suggestions_of(request, Tail(old_rows),
                 Put(old_suggestions, request.old_to_new_rows[old_row],
                     indentation_basis + delta))

old_suggestions_for(request) ==
    old_suggestions_of(request,
        chunk_rows(contiguous_ranges(row_keys(request.old_to_new_rows),
                                     max_rows_between_yields)),
        NoRows)

\* Mutant: an edited row is recorded whatever was suggested before the edit.
is_new_indentation_always(old_suggestions, new_row, new_indentation) == TRUE

\* Lines 937-939: there is no suggestion from before the edit for the row, or it is
\* another indentation.
is_new_indentation(old_suggestions, new_row, new_indentation) ==
    new_row \notin DOMAIN old_suggestions \/ new_indentation # old_suggestions[new_row]

\* Lines 923-945 and 954-971: the suggestions against the snapshot for some rows, in
\* order; those of edited rows are recorded when they are new, those of inserted rows
\* always.
RECURSIVE new_suggestions_of(_, _, _, _, _)
new_suggestions_of(after_edit, rows, old_suggestions, inserted, indent_columns) ==
    IF rows = <<>> THEN indent_columns
    ELSE LET row == Head(rows)
             suggestion == Unwrap(after_edit.suggestions)[row + 1]
             delta == IF suggestion.indent THEN INDENT_SIZE ELSE 0
             new_indentation ==
                 (IF suggestion.basis_row \in DOMAIN indent_columns
                  THEN indent_columns[suggestion.basis_row]
                  ELSE after_edit.indents[suggestion.basis_row + 1]) + delta
         IN  new_suggestions_of(after_edit, Tail(rows), old_suggestions, inserted,
                 IF inserted \/ is_new_indentation(old_suggestions, row, new_indentation)
                 THEN Put(indent_columns, row, new_indentation)
                 ELSE indent_columns)

\* The body of the loop over the queued requests, lines 879-973.
compute_autoindents_for(after_edit, request, indent_columns) ==
    LET edited == new_suggestions_of(after_edit,
                      chunk_rows(contiguous_ranges(row_values(request.old_to_new_rows),
                                                   max_rows_between_yields)),
                      old_suggestions_for(request), FALSE, indent_columns)
    IN  IF request.inserted = None THEN edited
        ELSE new_suggestions_of(after_edit,
                 chunk_rows(contiguous_ranges(Unwrap(request.inserted),
                                              max_rows_between_yields)),
                 NoRows, TRUE, edited)

\* The suggestions of a snapshot with a syntax tree for rows 0..MaxIndentRows: each
\* with an earlier row as its basis, and row 0, which no indent region that opens
\* before it encloses, with its own indentation.
Suggestions ==
    {s \in [1..(MaxIndentRows + 1) -> [basis_row : 0..MaxIndentRows, indent : BOOLEAN]] :
        /\ s[1] = [basis_row |-> 0, indent |-> FALSE]
        /\ \A k \in DOMAIN s : s[k].basis_row <= (IF k > 2 THEN k - 2 ELSE 0)}

\* The indent columns of rows 0..MaxIndentRows; the last row, the basis of no
\* suggestion, has none.
RowIndents ==
    {c \in [1..(MaxIndentRows + 1) -> {0, INDENT_SIZE}] : c[MaxIndentRows + 1] = 0}

\* The requests an edit can queue: the positions edited keep their order, and the
\* snapshot before the edit has a syntax tree or has none yet.
AutoindentRequests ==
    LET Rows == 0..MaxIndentRows
        RowMaps == UNION {{m \in [D -> Rows] :
                             \A r, s \in D : r <= s => m[r] <= m[s]} : D \in SUBSET Rows}
    IN  [before_edit : [suggestions : {None} \cup {Some(s) : s \in Suggestions},
                        indents : RowIndents],
         old_to_new_rows : RowMaps,
         inserted : {None, Some(<<MaxIndentRows>>)}]

\* The requests of an edit made last, which moved no row and changed no suggestion:
\* its snapshot before the edit is as the snapshot compute_autoindents takes.
LastRequests(after_edit) ==
    [before_edit : {after_edit},
     old_to_new_rows : {[r \in D |-> r] : D \in SUBSET (0..MaxIndentRows)},
     inserted : {None}]

\* compute_autoindents handles the first queued request: the map is empty, and the
\* snapshot of the buffer has a syntax tree.
ComputeAutoindents ==
    /\ call.op = "new"
    /\ \E request \in AutoindentRequests,
          after_edit \in [suggestions : {Some(s) : s \in Suggestions},
                          indents : RowIndents] :
         Commit([State([op |-> "compute_autoindents",
                        args |-> <<after_edit, request, NoRows>>])
                    EXCEPT !.result = compute_autoindents_for(after_edit, request, NoRows)])

\* compute_autoindents handles a later queued request.
ComputeAutoindentsNext ==
    /\ call.op = "compute_autoindents"
    /\ \E request \in LastRequests(call.args[1]) :
         Commit([State([op |-> "compute_autoindents",
                        args |-> <<call.args[1], request, result>>])
                    EXCEPT !.result = compute_autoindents_for(
                                          call.args[1], request, result)])

\* ---------------------------------------------------------------- content changes
\* text core: the characters of the text after the edits es of the saved text.  The
\* character the saved text has at column i is <<0, i>>, the j-th character edit k
\* inserted is <<k, j>>.
text_of(es) ==
    LET end_before(k) == IF k = 1 THEN 0 ELSE es[k - 1].end
        kept(from, to) == [i \in 1..(to - from) |-> <<0, from + i>>]
        piece(k) == kept(end_before(k), es[k].start)
                        \o [j \in 1..es[k].len |-> <<k, j>>]
    IN  Flatten([k \in DOMAIN es |-> piece(k)])
            \o kept(end_before(Len(es) + 1), MaxColumn)

\* Mutant: the range of a change ends where the new text of the edit ends.
edit_end_of_new_text(e) == e.new[2]

\* _maintain_server, lines 409-411: the end of the range a change replaces.
edit_end(e) == e.new[1] + (e.old[2] - e.old[1])

\* The content_changes of a DidChange, lines 402-432: one change for each edit since
\* the snapshot sent before, its range in the text as the edits before it left it.
content_changes(edits, new_text) ==
    [k \in DOMAIN edits |->
        [range |-> <<edits[k].new[1], edit_end(edits[k])>>,
         text |-> SubSeq(new_text, edits[k].new[1] + 1, edits[k].new[2])]]

\* The task computes the changes between the snapshot it sent last, the saved text,
\* and the snapshot it received.
DidChangeTextDocument ==
    /\ call.op = "new"
    /\ \E es \in EditLists :
         Commit([State([op |-> "did_change", args |-> <<es>>])
                    EXCEPT !.result = content_changes(edits_since(es, 0), text_of(es))])

\* ---------------------------------------------------------------- serialization
\* text.base_text() and text.history(): the text the buffer was created with and the
\* edit operations applied to it since, undone or not.
text_base_text(b) == BaseText.len
text_history(b) == b.text.history

\* text::Buffer::new with History::new(content), then apply_ops of the edit operations
\* of a history: every one of them is applied, and none is undone.
text_replay(content, history) ==
    [len |-> content, edits_since_save |-> <<>>, history |-> history, undone |-> 0]

\* proto::serialize_diagnostics and proto::deserialize_diagnostics: an entry travels
\* as its two offsets, severity, message, group id and primary flag.
serialize_diagnostics(d) ==
    [version |-> d.content,
     diagnostics |-> [k \in DOMAIN d.entries |->
                        [start |-> d.entries[k].range[1], end |-> d.entries[k].range[2],
                         severity |-> d.entries[k].severity,
                         message |-> d.entries[k].message,
                         group_id |-> d.entries[k].group_id,
                         is_primary |-> d.entries[k].is_primary]]]

deserialize_diagnostics(m) ==
    [input |-> <<>>, content |-> m.version,
     entries |-> [k \in DOMAIN m.diagnostics |->
                    [range |-> <<m.diagnostics[k].start, m.diagnostics[k].end>>,
                     severity |-> m.diagnostics[k].severity,
                     message |-> m.diagnostics[k].message,
                     group_id |-> m.diagnostics[k].group_id,
                     is_primary |-> m.diagnostics[k].is_primary]]]

\* Buffer::to_proto, lines 284-299.
to_proto(b) ==
    [content |-> text_base_text(b),
     history |-> text_history(b),
     diagnostics |-> Some(serialize_diagnostics(b.diagnostics))]

\* Buffer::build, lines 311-337, for the text core buffer: unmodified, no language.
build(buffer, new_file) ==
    [version |-> buffer.history, text |-> buffer,
     file |-> new_file, saved_version |-> buffer.history,
     saved_mtime |-> IF IsSome(new_file) THEN Unwrap(new_file).mtime ELSE 0,
     language |-> None, syntax_tree |-> None, parsing_in_background |-> FALSE,
     parse_count |-> 0, autoindent_requests |-> <<>>, pending_autoindent |-> None,
     diagnostics |-> [input |-> <<>>, content |-> 0, entries |-> <<>>],
     diagnostics_update_count |-> 0, language_server |-> None]

\* Buffer::from_proto, lines 260-282.
from_proto(message, new_file) ==
    LET this == build(text_replay(message.content, message.history), new_file)
    IN  IF IsSome(message.diagnostics)
        THEN apply_diagnostic_update(this,
                 deserialize_diagnostics(Unwrap(message.diagnostics)))
        ELSE this

\* A peer joins: the buffer is serialized, and the peer builds its replica from the
\* message; result is the replica.
Replicate ==
    /\ ~panicked
    /\ LET message == to_proto(State(call))
       IN  \E new_file \in {None, file} :
             Commit([State([op |-> "from_proto", args |-> <<message, new_file>>])
                        EXCEPT !.result = from_proto(message, new_file)])

\* ---------------------------------------------------------------- specifications
\* The reparse scheduler and the autoindent queue, for a buffer with no language
\* server attached.
ApplyOps == ApplyOpsOf({})
SetLanguage == SetLanguageTo(Languages, {FALSE})

Next ==
    \/ Edit
    \/ Undo
    \/ Redo
    \/ ApplyOps
    \/ SetLanguage
    \/ ParseComplete
    \/ AutoindentComplete

Spec == Init /\ [][Next]_vars

\* The background executor runs every parse it was given until it ends.
FairSpec == Spec /\ WF_vars(ParseComplete)

\* The same buffer and executor, with only grammars the parser accepts.
SetCompatibleLanguage == SetLanguageTo(CompatibleLanguages, {FALSE})

NextLive ==
    \/ Edit
    \/ Undo
    \/ Redo
    \/ ApplyOps
    \/ SetCompatibleLanguage
    \/ ParseComplete
    \/ AutoindentComplete

LiveSpec == Init /\ [][NextLive]_vars /\ WF_vars(ParseComplete)

\* The same, the foreground executor also running every task it was given.
DrainSpec == LiveSpec /\ WF_vars(AutoindentComplete)

\* Language-server synchronisation and diagnostics, for a buffer whose language has
\* no grammar: the language server is attached and detached by set_language.
ApplyRemoteOps == ApplyOpsOf(RemoteDiagnostics)
AttachLanguageServer == SetLanguageTo({"plain"}, BOOLEAN)

NextLsp ==
    \/ Edit
    \/ Undo
    \/ Redo
    \/ ApplyRemoteOps
    \/ AttachLanguageServer
    \/ UpdateDiagnostics
    \/ MaintainServer

LspSpec == Init /\ [][NextLsp]_vars

\* The same, with the content of the changes the task sends.
NextSync ==
    \/ Edit
    \/ Undo
    \/ Redo
    \/ ApplyRemoteOps
    \/ AttachLanguageServer
    \/ UpdateDiagnostics
    \/ MaintainServer
    \/ DidChangeTextDocument

SyncSpec == Init /\ [][NextSync]_vars

\* Saving and reloading: a buffer with no language, built with or without a file.
NextFile ==
    \/ Edit
    \/ Undo
    \/ Redo
    \/ DidSave
    \/ FileUpdated
    \/ ReloadComplete

FileSpec == FileInit /\ [][NextFile]_vars

\* Saving through save(): edits, saves, file updates and reloads.
NextSave ==
    \/ Edit
    \/ Save
    \/ SaveComplete
    \/ FileUpdated
    \/ ReloadComplete

SaveSpec == FileInit /\ [][NextSave]_vars

\* The buffer of Spec, with a file or without one.
ForwardSpec == EditInit /\ [][Next]_vars

NextEdit ==
    \/ EditRanges
    \/ Undo
    \/ Redo

EditSpec == EditInit /\ [][NextEdit]_vars

NextDiag ==
    \/ ReportDiagnostics
    \/ ReportDiagnosticsAgain

DiagSpec == DiagInit /\ [][NextDiag]_vars

\* Local and remote edits, undo and redo, and peers joining at any time.
NextProto ==
    \/ Edit
    \/ Undo
    \/ Redo
    \/ ApplyRemoteOps
    \/ Replicate

ProtoSpec == EditInit /\ [][NextProto]_vars

\* Anchors of a text that is edited, compared with each other.
NextAnchor ==
    \/ InsertCharacter
    \/ DeleteCharacter
    \/ CompareAnchors

AnchorSpec == AnchorInit /\ [][NextAnchor]_vars

\* Anchors of a text that is edited, resolved against snapshots of it.
NextResolve ==
    \/ InsertCharacter
    \/ DeleteCharacter
    \/ TakeSnapshot
    \/ ResolveAnchor

ResolveSpec == AnchorInit /\ [][NextResolve]_vars

\* A range map of any entries in the order of their ends, and a query of it.
RangeMapSpec == Init /\ [][RangeMapIntersectingRanges]_vars

\* The suggestions of a snapshot for any matches and any rows.
IndentSpec == Init /\ [][SuggestAutoindents]_vars

\* The chunks of any rows for any max_len.
ChunkSpec == Init /\ [][ContiguousRanges]_vars

\* The pool of query cursors and the functions that take cursors from it, on any
\* threads.
NextPool ==
    \/ NewQueryCursorHandle
    \/ RestrictQueryCursor
    \/ DropQueryCursorHandle

PoolSpec == Init /\ [][NextPool]_vars

\* A computed indentation map applied to any rows and any selection.
ApplySpec == Init /\ [][ApplyAutoindents]_vars

\* The indentation map computed from any queued requests.
NextCompute ==
    \/ ComputeAutoindents
    \/ ComputeAutoindentsNext

ComputeSpec == Init /\ [][NextCompute]_vars

\* A multimap of any entries, and one query of it.
NextMultimap ==
    \/ FromFullOffsetRanges
    \/ IntersectingRanges

MultimapSpec == Init /\ [][NextMultimap]_vars

\* ---------------------------------------------------------------- claims
\* The grammar of the buffer in the current state.
active_grammar == grammar([language |-> language])

\* The entries of the reparse log that are nested in entry i: the calls of reparse
\* made, through did_finish_parsing and the indentation edits, during call i.
NestedIn(i) == (i - reparse_log[i].nested)..(i - 1)

\* C2: while a background parse is outstanding, a call of reparse (whichever
\* handler made it) starts no parse, leaves the stored tree and parse_count as they
\* are, emits no Reparsed event and returns false.
C2_Coalescing ==
    \A i \in DOMAIN reparse_log :
        reparse_log[i].was_parsing =>
            /\ reparse_log[i].ret = FALSE
            /\ reparse_log[i].spawned = 0
            /\ ~reparse_log[i].tree_changed
            /\ reparse_log[i].parse_count_delta = 0
            /\ reparse_log[i].reparsed = 0

\* An undo whose reparse found a background parse outstanding.
C2_Witness ==
    /\ call.op = "undo"
    /\ \E i \in DOMAIN reparse_log : reparse_log[i].was_parsing
    /\ parse_count > 0

\* C3: a completed background parse is committed with the version it was dispatched
\* at; if the buffer's version is then past that version, or the active grammar is
\* not the one the parse was dispatched with, reparse is called in the same step
\* on the text as it then is: with a grammar configured the step ends with a tree
\* parsed from the current version or with a parse of it outstanding.
C3_CompletionReparsesWhenStale ==
    (call.op = "parse_complete" /\ commits # <<>>) =>
        LET task == call.args[1]
            stale == \/ commits[1].text_version > task.parsed_version
                     \/ active_grammar # Some(task.grammar)
        IN  /\ commits[1].version = task.parsed_version
            /\ commits[1].grammar = task.grammar
            /\ (stale /\ ~panicked) =>
                  /\ reparse_log # <<>>
                  /\ reparse_log[Len(reparse_log)].version >= commits[1].text_version
                  /\ IsSome(active_grammar) =>
                        \/ /\ IsSome(syntax_tree)
                           /\ Unwrap(syntax_tree).parsed_version = version
                           /\ Unwrap(syntax_tree).grammar = Unwrap(active_grammar)
                        \/ \E j \in DOMAIN parse_tasks :
                              /\ parse_tasks[j].parsed_version = version
                              /\ parse_tasks[j].grammar = Unwrap(active_grammar)

\* A background parse completed after the grammar was replaced by another one.
C3_Witness ==
    /\ call.op = "parse_complete" /\ commits # <<>> /\ ~panicked
    /\ IsSome(active_grammar)
    /\ active_grammar # Some(call.args[1].grammar)
    /\ version = call.args[1].parsed_version

\* C4: when a background parse completes and the buffer's version and grammar are
\* those the parse was dispatched with, the completion commits that one tree and
\* starts no further parse.
C4_StableTextEndsTheChain ==
    (/\ call.op = "parse_complete" /\ ~panicked
     /\ version = call.args[1].parsed_version
     /\ active_grammar = Some(call.args[1].grammar)) =>
        /\ Len(commits) = 1
        /\ reparse_log = <<>>
        /\ parse_tasks = <<>>
        /\ ~parsing_in_background
        /\ Unwrap(syntax_tree).parsed_version = version

C4_Witness ==
    /\ call.op = "parse_complete" /\ ~panicked
    /\ version = call.args[1].parsed_version
    /\ active_grammar = Some(call.args[1].grammar)
    /\ version > 0

\* The parses that completed during the last handler: the attempts of reparse that
\* ended within the timeout, and the background parse a completion step is for.
CompletedParses(log, c) ==
    Cardinality({i \in DOMAIN log : log[i].outcome = "finished"})
    + (IF c.op = "parse_complete" /\ parser_accepts(c.args[1].grammar) THEN 1 ELSE 0)

\* C6: every step changes parse_count by the number of parses that completed in it,
\* one for each; a coalesced reparse and a reparse with no grammar change nothing.
C6_ParseCountCountsCompletedParses ==
    [][parse_count' = parse_count + CompletedParses(reparse_log', call')]_vars

\* A completion step in which the re-triggered parse finished in time as well, after
\* an edit that was coalesced.
C6_Witness ==
    /\ call.op = "parse_complete"
    /\ \E i \in DOMAIN reparse_log : reparse_log[i].outcome = "finished"
    /\ parse_count >= 2

\* C7 as stated: a reparse whose parse finishes within the timeout returns true,
\* stores the tree with the version captured at the snapshot, emits exactly one
\* Reparsed event, runs the autoindent computation when requests are queued, and
\* leaves parsing_in_background false.
C7_SyncReparse_AsStated ==
    \A i \in DOMAIN reparse_log :
        (reparse_log[i].outcome = "finished" /\ ~reparse_log[i].panicked) =>
            /\ reparse_log[i].ret = TRUE
            /\ reparse_log[i].stored = Some(reparse_log[i].version)
            /\ reparse_log[i].reparsed = 1
            /\ reparse_log[i].queued > 0 => reparse_log[i].computed >= 1
            /\ ~reparse_log[i].parsing

\* C7 amended: as stated, except that the indentation edits applied by the call
\* re-enter reparse: each nested reparse that finishes in time emits a Reparsed
\* event of its own, and parsing_in_background ends true exactly when a nested
\* reparse timed out.
C7_SyncReparse ==
    \A i \in DOMAIN reparse_log :
        (reparse_log[i].outcome = "finished" /\ ~reparse_log[i].panicked) =>
            /\ reparse_log[i].ret = TRUE
            /\ reparse_log[i].stored = Some(reparse_log[i].version)
            /\ reparse_log[i].reparsed =
                  1 + Cardinality({j \in NestedIn(i) :
                                      reparse_log[j].outcome = "finished"})
            /\ reparse_log[i].queued > 0 => reparse_log[i].computed >= 1
            /\ reparse_log[i].parsing <=>
                  \E j \in NestedIn(i) : reparse_log[j].outcome = "timeout"
            /\ reparse_log[i].nested > 0 =>
                  \E k \in DOMAIN autoindents :
                      autoindents[k].outcome = "applied" /\ autoindents[k].rows > 0

\* A reparse that finished in time, applied indentation edits, and whose nested
\* reparse went to the background.
C7_Witness ==
    \E i \in DOMAIN reparse_log :
        /\ reparse_log[i].outcome = "finished"
        /\ reparse_log[i].parsing
        /\ reparse_log[i].queued > 0
        /\ version > 0

\* C5 as stated: a parse attempt that fails in the grammar engine leaves the buffer
\* running with the tree it had.
C5_FailedParseIsIsolated ==
    LET failed == \/ \E i \in DOMAIN reparse_log : reparse_log[i].outcome = "failed"
                  \/ /\ call.op = "parse_complete"
                     /\ ~parser_accepts(call.args[1].grammar)
    IN  failed => ~panicked

\* C8 as stated: an indentation map is applied only to the text it was computed
\* from; a computation that an edit, apply_ops, undo or redo overtook is dropped.
C8_StaleAutoindentIsDropped ==
    \A k \in DOMAIN autoindents :
        autoindents[k].outcome = "applied" =>
            autoindents[k].snapshot_version = autoindents[k].version

\* No parse is outstanding and, with a grammar configured, the stored tree was
\* parsed with that grammar from the current text.
Converged ==
    /\ ~parsing_in_background
    /\ parse_tasks = <<>>
    /\ IsSome(active_grammar) =>
          /\ IsSome(syntax_tree)
          /\ Unwrap(syntax_tree).grammar = Unwrap(active_grammar)
          /\ Unwrap(syntax_tree).parsed_version >= version

\* C1: once the edits have stopped, every outstanding background parse completes,
\* parsing_in_background becomes and stays false, and with a grammar configured the
\* committed tree was parsed from text at or after the last edit's version.
C1_ReparseConvergence == <>[]Converged

MissingSnapshot(ls, ver) ==
    \/ ls = None
    \/ \A s \in Unwrap(ls).pending_snapshots : s.version # Unwrap(ver)

\* C10 as stated: update_diagnostics, called with a version that has no pending
\* snapshot (never pushed, pruned, or no language server), returns an error, leaves
\* the diagnostics, diagnostics_update_count and the pending snapshots as they
\* were, and emits no event.
C10_MissingSnapshotIsAnError ==
    [][(/\ call'.op = "update_diagnostics"
        /\ IsSome(call'.args[1])
        /\ MissingSnapshot(language_server, call'.args[1])) =>
          /\ result' = "Err(missing snapshot)"
          /\ ~panicked'
          /\ diagnostics' = diagnostics
          /\ diagnostics_update_count' = diagnostics_update_count
          /\ language_server' = language_server
          /\ events' = <<>>]_vars

\* The versions of a set of pending snapshots.
Versions(pending_snapshots) == {s.version : s \in pending_snapshots}

\* The last handler was update_diagnostics and returned Ok.
UpdateSucceeded(c, r, p) == c.op = "update_diagnostics" /\ r = "ok" /\ ~p

\* C11: a successful update_diagnostics with version v removes exactly the pending
\* snapshots older than v: the one of v and those of every version pushed after it
\* stay.  No other handler of the attached language server removes a snapshot, and
\* update_diagnostics with a version that has a pending snapshot succeeds.
C11_PruneKeepsConsumedAndLater ==
    [][/\ (UpdateSucceeded(call', result', panicked') /\ IsSome(call'.args[1])) =>
            LET v == Unwrap(call'.args[1])
                old == Unwrap(language_server).pending_snapshots
                new == Unwrap(language_server').pending_snapshots
            IN  /\ new = {s \in old : s.version >= v}
                /\ Versions(new) = v..(Unwrap(language_server').next_version - 1)
       /\ (/\ call'.op = "update_diagnostics" /\ IsSome(call'.args[1])
           /\ IsSome(language_server)
           /\ Unwrap(call'.args[1]) \in
                 Versions(Unwrap(language_server).pending_snapshots)) =>
              UpdateSucceeded(call', result', panicked')
       /\ (/\ call'.op \notin {"update_diagnostics", "set_language"}
           /\ IsSome(language_server)) =>
              /\ IsSome(language_server')
              /\ Unwrap(language_server).pending_snapshots \subseteq
                    Unwrap(language_server').pending_snapshots]_vars

\* The second successful update, for version 1, with snapshots 0, 1 and 2 pushed:
\* 0 was pruned, 1 and 2 are pending.
C11_Witness ==
    /\ UpdateSucceeded(call, result, panicked)
    /\ call.args[1] = Some(1)
    /\ diagnostics_update_count = 2
    /\ Versions(Unwrap(language_server).pending_snapshots) = {1, 2}

\* C14: diagnostics_update_count never decreases, and a successful
\* update_diagnostics, whatever diagnostics the call before it supplied, adds
\* exactly 1 to it and emits exactly one DiagnosticsUpdated event.
C14_UpdateCountIsMonotonic ==
    [][/\ diagnostics_update_count' >= diagnostics_update_count
       /\ UpdateSucceeded(call', result', panicked') =>
             /\ diagnostics_update_count' = diagnostics_update_count + 1
             /\ Count(events', "DiagnosticsUpdated") = 1]_vars

\* A second successful update_diagnostics, with the diagnostics already stored.
C14_Witness ==
    /\ UpdateSucceeded(call, result, panicked)
    /\ diagnostics_update_count = 2
    /\ diagnostics.input = call.args[2]
    /\ events = <<"DiagnosticsUpdated">>

\* The buffer's file handle reports the file deleted.
FileDeleted == IsSome(file) /\ Unwrap(file).is_deleted

\* did_save was just called with the buffer's current version.
SavedAtCurrentVersion == call.op = "did_save" /\ call.args[1] = version /\ ~panicked

\* C19 as stated: a newly built buffer is clean, and did_save at the current version
\* makes the buffer clean.
C19_CleanWhenBuiltAndSaved_AsStated ==
    (call.op = "build" \/ SavedAtCurrentVersion) => ~is_dirty(State(call))

\* C19 amended: is_dirty() is true exactly when the version is ahead of the saved
\* version or the buffer has a file handle that reports the file deleted (a buffer
\* with no file is not dirty on that account).  A newly built buffer, and a buffer
\* after did_save at its current version, is clean unless its file handle reports
\* the file deleted: did_save replaces the handle only when it is given a new one.
C19_DirtyIsAheadOrDeleted ==
    /\ is_dirty(State(call)) <=> (version > saved_version \/ FileDeleted)
    /\ (call.op = "build" \/ SavedAtCurrentVersion) =>
          (is_dirty(State(call)) <=> FileDeleted)

\* did_save at the current version, with no new file, of an edited buffer whose
\* file was deleted: the buffer stays dirty.
C19_Witness ==
    /\ SavedAtCurrentVersion
    /\ call.args[3] = None
    /\ version > 0
    /\ FileDeleted
    /\ is_dirty(State(call))

\* The file's modification time is after the one recorded at the last save.
FileIsNewer == IsSome(file) /\ Unwrap(file).mtime > saved_mtime

\* C20 as stated: has_conflict() is true exactly when is_dirty() is true and the
\* file's mtime is newer than the one recorded at the last save.
C20_ConflictIsDirtyAndNewer_AsStated ==
    has_conflict(State(call)) <=> (is_dirty(State(call)) /\ FileIsNewer)

\* C20 amended: has_conflict() is true exactly when the version is ahead of the
\* saved version and the file's mtime is newer than the one recorded at the last
\* save; a buffer that is dirty only because its file was deleted has no conflict.
C20_ConflictIsAheadAndNewer ==
    /\ has_conflict(State(call)) <=> (version > saved_version /\ FileIsNewer)
    /\ has_conflict(State(call)) => is_dirty(State(call))

\* An unedited buffer whose file was deleted, the handle reporting a newer mtime:
\* dirty, with no conflict.
C20_Witness ==
    /\ call.op = "file_updated"
    /\ version = saved_version
    /\ FileDeleted /\ FileIsNewer
    /\ is_dirty(State(call)) /\ ~has_conflict(State(call))

\* ---- diagnostics as stored
Stored == diagnostics.entries
StoredGroups == {Stored[k].group_id : k \in DOMAIN Stored}
InGroup(g) == {k \in DOMAIN Stored : Stored[k].group_id = g}
DiagnosticsStored == call.op = "update_diagnostics" /\ result = "ok"

\* C12: after every successful update_diagnostics, every group_id of the stored
\* diagnostics has exactly one entry flagged is_primary, and that entry has the
\* lowest severity value of its group.
C12_OnePrimaryPerGroup ==
    DiagnosticsStored =>
        \A g \in StoredGroups :
            /\ Cardinality({k \in InGroup(g) : Stored[k].is_primary}) = 1
            /\ \A k \in InGroup(g) :
                  Stored[k].is_primary =>
                      \A j \in InGroup(g) : Stored[k].severity <= Stored[j].severity

\* A group of two severities was stored, its primary entry not the first reported.
C12_Witness ==
    /\ DiagnosticsStored
    /\ \E g \in StoredGroups :
          \E k, j \in InGroup(g) :
             /\ Stored[k].is_primary /\ Stored[k].severity < Stored[j].severity
             /\ Stored[j].message < Stored[k].message

\* The list of the last update_diagnostics in the order it was processed in, the
\* ranges a diagnostic is grouped by, and the group its stored entry is in.
Processed == sort_by_range(diagnostics.input)
GroupingRanges(d) ==
    LET ranges == diagnostic_ranges(d, abs_path([file |-> file]))
    IN  {ranges[k] : k \in DOMAIN ranges}
SameKey(d, e) == d.source = e.source /\ d.code = e.code
IsStored(d) == \E k \in DOMAIN Stored : Stored[k].message = d.message
GroupOf(d) == Stored[CHOOSE k \in DOMAIN Stored : Stored[k].message = d.message].group_id

\* C13: a diagnostic gets the group_id of an earlier diagnostic (in (start, end)
\* order) of the same (source, code) whenever one of its ranges, its own or a
\* related-information range in this file, is a range already seen for that key,
\* and a fresh group_id otherwise.  (Read with "intersects" as "is equal to", the
\* reading closest to the code.)
C13_GroupedBySharedRange ==
    (DiagnosticsStored /\ text.edits_since_save = <<>>) =>
        \A i \in DOMAIN Processed :
            LET d == Processed[i]
                seen == {j \in 1..(i - 1) :
                            /\ SameKey(Processed[j], d)
                            /\ GroupingRanges(Processed[j]) \cap GroupingRanges(d) # {}}
            IN  IF seen # {}
                THEN \E j \in seen : GroupOf(d) = GroupOf(Processed[j])
                ELSE \A j \in 1..(i - 1) : GroupOf(d) # GroupOf(Processed[j])

\* Two overlays hold the same entries, each as often, in whatever order.
EntryCount(entries, e) == Cardinality({k \in DOMAIN entries : entries[k] = e})
SameOverlay(a, b) ==
    /\ Len(a) = Len(b)
    /\ \A k \in DOMAIN a : EntryCount(a, a[k]) = EntryCount(b, a[k])

\* C15: update_diagnostics with the list of the previous successful call, against
\* the same text, stores the overlay that call stored: the same entries with the
\* same range, group_id and is_primary.
C15_SameListSameOverlay ==
    [][(/\ DiagnosticsStored
        /\ call'.op = "update_diagnostics" /\ result' = "ok"
        /\ call'.args = call.args /\ text' = text)
       => SameOverlay(diagnostics'.entries, diagnostics.entries)]_vars

\* The same list was stored a second time: several groups, one of them left
\* out of the order the list was processed in.
C15_Witness ==
    /\ DiagnosticsStored /\ diagnostics_update_count = 2
    /\ Cardinality(StoredGroups) >= 2
    /\ \E k \in 1..(Len(Stored) - 1) : Stored[k].group_id > Stored[k + 1].group_id
    /\ \E k \in DOMAIN Stored : ~Stored[k].is_primary

\* The net change of length of the edits since the save that end at or before
\* column, and the entry stored for a diagnostic of the last list.
RECURSIVE NetChange(_, _)
NetChange(edits, column) ==
    IF edits = <<>> THEN 0
    ELSE LET e == Head(edits)
         IN  (IF e.old[2] <= column
              THEN (e.new[2] - e.new[1]) - (e.old[2] - e.old[1]) ELSE 0)
             + NetChange(Tail(edits), column)
IsDiskBased(d) == d.source \in disk_based_diagnostic_sources(language)
StoredRange(d) == Stored[CHOOSE k \in DOMAIN Stored : Stored[k].message = d.message].range
Clipped(r) == <<clip_point_utf16(text, r[1]), clip_point_utf16(text, r[2])>>
StoredAs(d, r) ==
    IF r[1] < r[2] THEN StoredRange(d) = r
    ELSE StoredRange(d)[1] <= r[1] /\ r[1] <= StoredRange(d)[2]

\* The reported range of d and the old range of an edit share a position, an end
\* position included.
Overlaps(d, e) == e.old[1] <= d.range[2] /\ e.old[2] >= d.range[1]
OverlapsAnEdit(d) ==
    \E k \in DOMAIN text.edits_since_save : Overlaps(d, text.edits_since_save[k])

\* C16: a disk-based diagnostic that overlaps no edit since the save is stored, and
\* a disk-based diagnostic that is stored is stored at its reported range moved by
\* the net change of length of all edits since the save that end at or before its
\* start (a zero-width range widened around that position); a diagnostic of another
\* source is stored at its reported range, clipped to the text.
C16_DiskBasedIsShifted ==
    DiagnosticsStored =>
        \A i \in DOMAIN Processed :
            LET d == Processed[i]
                by == NetChange(text.edits_since_save, d.range[1])
                moved == <<d.range[1] + by, d.range[2] + by>>
            IN  /\ (~IsDiskBased(d) \/ ~OverlapsAnEdit(d)) => IsStored(d)
                /\ IsStored(d) =>
                      IF IsDiskBased(d)
                      THEN Clipped(moved) = moved /\ StoredAs(d, moved)
                      ELSE StoredAs(d, Clipped(d.range))

\* After two edits that changed the length of the text, a disk-based diagnostic
\* behind both was stored moved, and one of another source where it was reported.
C16_Witness ==
    /\ DiagnosticsStored
    /\ Len(text.edits_since_save) = 2
    /\ \E i, j \in DOMAIN Processed :
          LET d == Processed[i]
              e == Processed[j]
          IN  /\ IsDiskBased(d) /\ ~OverlapsAnEdit(d) /\ IsStored(d)
              /\ d.range[1] < d.range[2]
              /\ text.edits_since_save[2].old[2] <= d.range[1]
              /\ NetChange(text.edits_since_save, d.range[1]) = 2
              /\ StoredRange(d) = <<d.range[1] + 2, d.range[2] + 2>>
              /\ ~IsDiskBased(e) /\ e.range = d.range /\ StoredRange(e) = e.range

\* The reported range of d and the old range of an edit share text.
SharesText(d, e) == e.old[1] < d.range[2] /\ e.old[2] > d.range[1]
\* The edit starts at or before the end of d and ends behind the start of d.
CutsInto(d, e) == e.old[1] <= d.range[2] /\ e.old[2] > d.range[1]

\* C17 as stated, with "overlaps" read either way: a disk-based diagnostic is left
\* out exactly when its reported range and the old range of an edit since the save
\* share a position, or exactly when they share text.
C17_OmittedIffOverlapping_AsStated ==
    DiagnosticsStored =>
        \/ \A i \in DOMAIN Processed :
              IsDiskBased(Processed[i]) =>
                  (~IsStored(Processed[i]) <=> OverlapsAnEdit(Processed[i]))
        \/ \A i \in DOMAIN Processed :
              IsDiskBased(Processed[i]) =>
                  (~IsStored(Processed[i]) <=>
                      \E k \in DOMAIN text.edits_since_save :
                         SharesText(Processed[i], text.edits_since_save[k]))

\* C17: a diagnostic is left out exactly when it is disk-based and some edit since
\* the save starts at or before the end of its reported range and ends behind its
\* start; the diagnostics before it in the list make no difference.
C17_OmittedIffEditCutsIn ==
    DiagnosticsStored =>
        \A i \in DOMAIN Processed :
            ~IsStored(Processed[i]) <=>
                /\ IsDiskBased(Processed[i])
                /\ \E k \in DOMAIN text.edits_since_save :
                      CutsInto(Processed[i], text.edits_since_save[k])

\* A disk-based diagnostic was left out, and one behind it in the list, which
\* starts where an edit ends, was stored.
C17_Witness ==
    /\ DiagnosticsStored
    /\ \E i, j \in DOMAIN Processed :
          /\ i < j
          /\ IsDiskBased(Processed[i]) /\ ~IsStored(Processed[i])
          /\ IsDiskBased(Processed[j]) /\ IsStored(Processed[j])
          /\ \E k \in DOMAIN text.edits_since_save :
                text.edits_since_save[k].old[2] = Processed[j].range[1]

\* C18: every stored range on a line that is not empty is not empty: a range that
\* is zero-width after clipping was widened by one column, to the right, or to the
\* left at the end of the line.
C18_StoredRangeIsNotEmpty ==
    (DiagnosticsStored /\ text.len > 0) =>
        \A k \in DOMAIN Stored :
            /\ Stored[k].range[1] < Stored[k].range[2]
            /\ Stored[k].range[2] <= text.len

\* Zero-width diagnostics were stored widened: one inside the line to the right,
\* one at the end of the line to the left.
C18_Witness ==
    /\ DiagnosticsStored /\ text.len > 1
    /\ \E i, j \in DOMAIN Processed :
          LET d == Processed[i]
              e == Processed[j]
          IN  /\ ~IsDiskBased(d) /\ d.range = <<0, 0>> /\ StoredRange(d) = <<0, 1>>
              /\ ~IsDiskBased(e) /\ e.range[1] = e.range[2] /\ e.range[1] >= text.len
              /\ StoredRange(e) = <<text.len - 1, text.len>>

\* ---- edits
\* The ranges of the last call of edit, those of them that are not skipped, and
\* the ranges it handed to text.edit.
EditCalled == call.op = "edit" /\ Len(call.args) = 3
Ascending(ranges) == \A k \in 1..(Len(ranges) - 1) : ranges[k][1] <= ranges[k + 1][1]
NotSkipped(ranges, new_text) ==
    LET effective(r) == new_text # "" \/ r[1] < r[2] IN SelectSeq(ranges, effective)
HandedToText == IF text_edits = <<>> THEN <<>> ELSE text_edits[1]
Covers(ranges, p) == \E k \in DOMAIN ranges : ranges[k][1] <= p /\ p <= ranges[k][2]

\* C21: for ranges given in ascending order, the ranges handed to the text core are
\* ascending, disjoint and not adjacent, and cover exactly the ranges that were not
\* skipped; a range is skipped only when it is empty and the new text is empty; when
\* every range is skipped the call does nothing: no transaction, no new version, no
\* operation, no event.
C21_CoalescedRanges ==
    (EditCalled /\ Ascending(call.args[1])) =>
        LET kept == NotSkipped(call.args[1], call.args[2])
            out == HandedToText
        IN  /\ \A k \in DOMAIN out : out[k][1] <= out[k][2]
            /\ \A k \in 1..(Len(out) - 1) : out[k][2] < out[k + 1][1]
            /\ \A p \in 0..MaxOffset : Covers(out, p) <=> Covers(kept, p)
            /\ Len(text_edits) = (IF kept = <<>> THEN 0 ELSE 1)
            /\ kept = <<>> =>
                  /\ version = 0 /\ undo_stack = 0
                  /\ operations = <<>> /\ events = <<>>
            /\ kept # <<>> => version = 1 /\ undo_stack = 1

\* Three ranges in ascending order with a text to insert: two of them were merged,
\* and two ranges were handed to the text core.
C21_Witness ==
    /\ EditCalled /\ Ascending(call.args[1])
    /\ Len(call.args[1]) = 3 /\ Len(NotSkipped(call.args[1], call.args[2])) = 3
    /\ Len(HandedToText) = 2
    /\ IsSome(file) /\ operations = <<"Edit">>

\* C22: a call of edit or edit_with_autoindent with an effective range forwards one
\* Edit operation for every edit made during the call, its own and those that
\* re-indent rows, and no other; undo and redo forward the one operation the text
\* core returns, or none when there is nothing to undo or redo.  The operations
\* reach the file of the buffer; without a file they reach nobody.
C22_EveryOperationForwardedOnce ==
    [][/\ (call'.op = "edit" /\ IsSome(file)) =>
            /\ Count(operations', "Edit") = version' - version
            /\ Len(operations') = version' - version
            /\ call'.args[2] <=> version' > version
       /\ (call'.op = "undo" /\ IsSome(file)) =>
            /\ Count(operations', "Undo") = (IF undo_stack > 0 THEN 1 ELSE 0)
            /\ Len(operations') = version' - version
       /\ (call'.op = "redo" /\ IsSome(file)) =>
            /\ Count(operations', "Redo") = (IF redo_stack > 0 THEN 1 ELSE 0)
            /\ Len(operations') = version' - version
       /\ file = None => operations' = <<>>]_vars

\* edit_with_autoindent on a buffer with a file re-indented a row: the operation of
\* the edit and the operation of the indentation edit were both forwarded.
C22_Witness ==
    /\ call.op = "edit" /\ call.args = <<TRUE, TRUE>>
    /\ IsSome(file) /\ ~panicked
    /\ operations = <<"Edit", "Edit">>
    /\ \E k \in DOMAIN autoindents : autoindents[k].outcome = "applied"

\* ---- C23
TextOf(t) == [history |-> t.history, undone |-> t.undone]

Replicated == call.op = "from_proto"

\* C23: the replica built by from_proto from to_proto of a buffer has the text and
\* the diagnostics (ranges, severities, messages, group ids, primary flags) of the
\* buffer.
C23_RoundTrip ==
    Replicated =>
        /\ TextOf(result.text) = TextOf(text)
        /\ result.diagnostics.entries = diagnostics.entries

\* C23: the diagnostics alone do come back as they were.
C23_DiagnosticsRoundTrip ==
    Replicated => result.diagnostics.entries = diagnostics.entries

C23_Witness ==
    /\ Replicated
    /\ text.undone > 0
    /\ diagnostics.entries # <<>>

\* ---- C24, C25
Queried == call.op = "intersecting_ranges"

\* Whether the stored range r overlaps the query q: touching ends count when
\* inclusive, and do not otherwise.
OverlapsQuery(r, q, inclusive) ==
    IF inclusive THEN r[1] <= q[2] /\ q[1] <= r[2]
                 ELSE r[1] < q[2] /\ q[1] < r[2]

\* C24: intersecting_ranges returns an entry of the multimap iff its range overlaps
\* the query, with its index, its range and the value stored with it; no entry is
\* lost to the pruning by min_start and max_end.
C24_SoundAndComplete ==
    Queried =>
        LET q == call.args[1]
            inclusive == call.args[2]
            returned == {result[k] : k \in DOMAIN result}
        IN  /\ \A k \in DOMAIN Stored :
                  OverlapsQuery(Stored[k].range, q, inclusive)
                     <=> [ix |-> k - 1, range |-> Stored[k].range,
                          value |-> Stored[k].value] \in returned
            /\ \A k \in DOMAIN result :
                  /\ result[k].ix + 1 \in DOMAIN Stored
                  /\ Stored[result[k].ix + 1].range = result[k].range
                  /\ Stored[result[k].ix + 1].value = result[k].value
            /\ \A k \in 1..(Len(result) - 1) : result[k].ix < result[k + 1].ix

\* A query that touches one entry, overlaps another and misses a third, with the
\* entry of the largest end not the last one.
C24_Witness ==
    /\ Queried /\ Len(Stored) = 3 /\ Len(result) = 1
    /\ call.args = <<<<2, 2>>, TRUE>>
    /\ Stored[1].range = <<0, 2>> /\ Stored[2].range = <<0, 1>>
    /\ Stored[3].range = <<1, 1>>

\* C25: the entries of every multimap are in the order of their sort key: starts
\* never decrease, and of two entries of one start the one that ends later is first.
C25_EntriesInSortOrder ==
    \A k \in 1..(Len(Stored) - 1) : InSortOrder(Stored[k], Stored[k + 1])

\* ---- C26
Compared == call.op = "cmp"
Now == [version |-> version, fragments |-> text.fragments]
AtMost(a, b) == cmp(a, b, Now) \in {"Less", "Equal"}
Converse(o) == IF o = "Less" THEN "Greater" ELSE IF o = "Greater" THEN "Less" ELSE "Equal"

\* C26: Anchor::cmp is Equal for identical anchors, orders anchors of one version by
\* full offset and then bias, anchors of two versions by their offsets in the
\* snapshot and then bias, and is antisymmetric and transitive over the anchors
\* compared against one snapshot.
C26_CmpIsAnOrder ==
    Compared =>
        LET a == call.args[1]
            b == call.args[2]
        IN  /\ a = b => result = "Equal"
            /\ (a # b /\ a.version = b.version) =>
                   result = IF a.full_offset # b.full_offset
                            THEN cmp_offset(a.full_offset, b.full_offset)
                            ELSE cmp_bias(a.bias, b.bias)
            /\ a.version # b.version =>
                   result = IF full_offset_for_anchor(Now, a)
                                # full_offset_for_anchor(Now, b)
                            THEN cmp_offset(full_offset_for_anchor(Now, a),
                                            full_offset_for_anchor(Now, b))
                            ELSE cmp_bias(a.bias, b.bias)
            /\ cmp(b, a, Now) = Converse(result)
            /\ \A c \in Anchors(Now) :
                  (AtMost(a, b) /\ AtMost(b, c)) => AtMost(a, c)

\* C26 without transitivity.
C26_CmpIsAntisymmetric ==
    Compared => cmp(call.args[2], call.args[1], Now) = Converse(result)

\* C26, transitivity over the anchors other than Anchor::max().
C26_TransitiveBelowMax ==
    Compared =>
        \A c \in Anchors(Now) \ {AnchorMax} :
           (call.args[1] # AnchorMax /\ call.args[2] # AnchorMax
            /\ AtMost(call.args[1], call.args[2]) /\ AtMost(call.args[2], c))
              => AtMost(call.args[1], c)

\* ---- C27
Resolved == call.op = "summary"
VisibleLen(content) == visible_before(content.fragments, Len(content.fragments))

C28_ExactlyTheOverlapping ==
    call.op = "AnchorRangeMap::intersecting_ranges" =>
        LET entries == call.args[1].entries
            query == <<call.args[2].start[1], call.args[2].end[1]>>
            overlapping == {k \in DOMAIN entries :
                              /\ ~(entries[k].range[2] < query[1])
                              /\ ~(entries[k].range[1] > query[2])}
        IN  {result[j] : j \in DOMAIN result} = {entries[k] : k \in overlapping}

\* C28: what the call does return is the ranges whose end is not before the start of
\* the query, whatever their start.
C28_NoneEndingBefore ==
    call.op = "AnchorRangeMap::intersecting_ranges" =>
        \A j \in DOMAIN result : result[j].range[2] >= call.args[2].start[1]

\* ---- C29
\* Every request an applied indentation map was computed from was still queued when
\* the map was applied: apply_autoindents drains the queue and no request is queued
\* twice, so a request that is gone has had its map applied.
C29_AppliedAtMostOnce ==
    \A k \in DOMAIN autoindents :
        autoindents[k].outcome = "applied" =>
            \A i \in DOMAIN autoindents[k].requests :
               \E j \in DOMAIN autoindents[k].queued :
                  autoindents[k].queued[j] = autoindents[k].requests[i]

C29_QueueIsDrained == (autoindent_requests # <<>>) ~> (autoindent_requests = <<>>)

\* C29: every AutoindentRequest an edit queued is in the end removed from the queue
\* by an application of indentation, and it is part of one applied indentation map
\* at most; the queue does not keep growing.
C29_EveryRequestIsDrainedOnce == []C29_AppliedAtMostOnce /\ C29_QueueIsDrained

\* ---- C30
\* The indent regions of the last call: the matches that span rows, those of one
\* start taken as one region up to the farthest of their ends.
Regions ==
    LET matches == {call.args[1][k] : k \in DOMAIN call.args[1]}
        spanning == {m \in matches : m.start[1] # m.end[1]}
    IN  {m \in spanning :
            \A n \in spanning : n.start = m.start => ~PointBefore(m.end, n.end)}

\* The k-th row asked about, its start, and the rows before it: the nearest one
\* that is not blank, and the one suggest_autoindents takes.
RowAt(k) == call.args[2] + k - 1
RowStart(k) == <<RowAt(k), call.args[4][k].indent>>
PrevNonBlankRow(k) ==
    IF k > 1 /\ ~call.args[4][k - 1].blank THEN RowAt(k) - 1
    ELSE IF IsSome(call.args[3]) THEN Unwrap(call.args[3]) ELSE 0
PrevRow(k) ==
    IF k > 1 THEN RowAt(k) - 1
    ELSE IF IsSome(call.args[3]) THEN Unwrap(call.args[3]) ELSE 0

\* A region that opens on row p still encloses the k-th row; the regions that close
\* at or before the start of the k-th row, not before row p.
EnclosedFrom(k, p) ==
    \E r \in Regions : r.start[1] = p /\ p < RowAt(k) /\ PointBefore(RowStart(k), r.end)
ClosedAt(k, p) ==
    {r \in Regions : /\ r.start[1] < RowAt(k) /\ r.end[1] >= p
                      /\ ~PointBefore(RowStart(k), r.end)}

Suggested == call.op = "suggest_autoindents"

\* C30 as stated: a region that opens on the preceding non-blank row and still
\* encloses the row makes the suggestion one level from that row, whatever region
\* closes at or before the start of the row; with no such region and none that
\* closes there, the suggestion is the indentation of the preceding non-blank row.
C30_IndentBeforeOutdent_AsStated ==
    Suggested =>
        \A k \in DOMAIN result :
            LET p == PrevNonBlankRow(k) IN
            /\ EnclosedFrom(k, p) => result[k] = [basis_row |-> p, indent |-> TRUE]
            /\ (~EnclosedFrom(k, p) /\ ClosedAt(k, p) = {}) =>
                   result[k] = [basis_row |-> p, indent |-> FALSE]

\* C30 amended: the preceding row is the nearest non-blank row before the first
\* row asked about, and the row just before each later row.  If a region that
\* opens on the preceding row closes at or before the start of the row, and none
\* that opens earlier does, the suggestion is the indentation of the preceding row;
\* otherwise a region that opens on the preceding row and still encloses the row
\* makes it one level from the preceding row, before any outdent to an earlier
\* row; with no enclosing and no closing region it is the indentation of the
\* preceding row.
C30_IndentBeforeOutdent ==
    Suggested =>
        \A k \in DOMAIN result :
            LET p == PrevRow(k)
                closes_own == /\ \E r \in ClosedAt(k, p) : r.start[1] = p
                              /\ \A r \in ClosedAt(k, p) : r.start[1] >= p
            IN  /\ closes_own => result[k] = [basis_row |-> p, indent |-> FALSE]
                /\ (EnclosedFrom(k, p) /\ ~closes_own) =>
                       result[k] = [basis_row |-> p, indent |-> TRUE]
                /\ (~EnclosedFrom(k, p) /\ ClosedAt(k, p) = {}) =>
                       result[k] = [basis_row |-> p, indent |-> FALSE]

\* A row inside a region that opened on the row before, at the start of which
\* another region of that row closes: no indent.
C30_Witness ==
    /\ Suggested
    /\ EnclosedFrom(1, PrevRow(1))
    /\ \E r \in ClosedAt(1, PrevRow(1)) : r.start[1] = PrevRow(1)
    /\ result[1] = [basis_row |-> PrevRow(1), indent |-> FALSE]

\* ---- C40
Chunked == call.op = "contiguous_ranges"

\* The values of the range start..end, in order.
Expand(range) == [i \in 1..(range[2] - range[1]) |-> range[1] + i - 1]

\* C40: contiguous_ranges partitions its input.  Every range it yields is non-empty
\* and no longer than max_len, and the values of the yielded ranges, one range after
\* the other, are the input sequence; a range being start..end, its values are
\* consecutive.
C40_Partition ==
    Chunked =>
        LET values == call.args[1]
            max_len == call.args[2]
        IN  /\ \A k \in DOMAIN result :
                  /\ result[k][1] < result[k][2]
                  /\ result[k][2] - result[k][1] <= max_len
            /\ Flatten([k \in DOMAIN result |-> Expand(result[k])]) = values

\* Three consecutive rows were cut into a full chunk and a rest.
C40_Witness ==
    /\ Chunked
    /\ Len(call.args[1]) = 3
    /\ \A k \in 1..2 : call.args[1][k + 1] = call.args[1][k] + 1
    /\ Len(result) = 2
    /\ result[1][2] - result[1][1] = call.args[2]

\* ---- C33
\* The cursors in the pool and the cursors inside handles, by their identities.
Pooled == {query_cursors.pool[k].id : k \in DOMAIN query_cursors.pool}
Owners(id) == {h \in query_cursors.handles : h.cursor.id = id}

\* C33: every query cursor ever created is either in the pool, once, or inside
\* exactly one handle, never both, and every cursor in the pool is restricted to
\* nothing: its byte range and its point range are the full ranges.
C33_PooledOrOwnedAndReset ==
    /\ \A id \in 1..query_cursors.created :
          /\ Cardinality({k \in DOMAIN query_cursors.pool :
                             query_cursors.pool[k].id = id})
               + Cardinality(Owners(id)) = 1
    /\ \A h1, h2 \in query_cursors.handles : h1.handle = h2.handle => h1 = h2
    /\ \A k \in DOMAIN query_cursors.pool :
          /\ query_cursors.pool[k].byte_range = FullByteRange
          /\ query_cursors.pool[k].point_range = FullPointRange

\* A handle whose cursor had been restricted was dropped while another handle was
\* alive, and its cursor is in the pool.
C33_Witness ==
    /\ call.op = "drop"
    /\ call.args[3]
    /\ call.args[2] \in Pooled
    /\ query_cursors.handles # {}
    /\ query_cursors.created = 2

\* ---- C39
\* C39: every item AnchorRangeMap::intersecting_ranges yields pairs a range with the
\* value the map stores with that range, also when the first entry it yields is not
\* the first entry of the map.
C39_ValueOfTheSameEntry ==
    call.op = "AnchorRangeMap::intersecting_ranges" =>
        \A j \in DOMAIN result :
            \E k \in DOMAIN call.args[1].entries :
                /\ call.args[1].entries[k].range = result[j].range
                /\ call.args[1].entries[k].value = result[j].value

\* ---- C32
Applied == call.op = "apply_autoindents"

\* Every row of the map ends at the column the map has for it, by edits made inside
\* the one transaction of the call.
C32_RowsReachTheirColumn ==
    Applied =>
        /\ \A row \in DOMAIN call.args[2] :
              indent_column_for_line(result, row) = call.args[2][row]
        /\ result.transactions = 1
        /\ \A k \in DOMAIN result.edits : result.edits[k] >= 2
        /\ Len(result.edits) =
             Cardinality({row \in DOMAIN call.args[2] :
                            indent_column_for_line(call.args[1], row) # call.args[2][row]})

\* C32: apply_autoindents, inside one transaction, sets every row of the computed map
\* to its column by inserting spaces at column 0 or deleting the excess, and a
\* selection that starts at column 0 of such a row is moved right by as many columns
\* as the indentation of the row grew by.
C32_SelectionsMoveByTheChange ==
    /\ C32_RowsReachTheirColumn
    /\ Applied =>
         \A k \in DOMAIN call.args[1].selections :
            LET before == call.args[1].selections[k]
                row == before.start[1]
                change == call.args[2][row] - indent_column_for_line(call.args[1], row)
            IN  (before.start[2] = 0 /\ row \in DOMAIN call.args[2] /\ change >= 0) =>
                    result.selections[k].start = <<row, change>>

\* ---- C31
Computed == call.op = "compute_autoindents"

\* The rows a request edited and did not insert, as they are after the edit.
EditedOnly(request) ==
    {request.old_to_new_rows[r] : r \in DOMAIN request.old_to_new_rows}
        \ (IF request.inserted = None THEN {}
           ELSE {Unwrap(request.inserted)[k] : k \in DOMAIN Unwrap(request.inserted)})

\* C31, as stated: a row that was edited and not inserted is in the computed map only
\* with an indentation other than the one suggested for it against the snapshot
\* before the edit.
C31_OnlyWhenTheSuggestionChanged ==
    Computed =>
        \A row \in EditedOnly(call.args[2]) \cap DOMAIN result :
            /\ row \in DOMAIN old_suggestions_for(call.args[2])
            /\ old_suggestions_for(call.args[2])[row] # result[row]

\* C31, amended: while it handles one request, compute_autoindents records an
\* indentation for a row the request edited and did not insert only when it is not
\* the indentation suggested for the row against the snapshot before the edit, or
\* when that snapshot has no suggestions; what it recorded for earlier requests stays.
C31_RecordedOnlyWhenChanged ==
    [][Computed' =>
         \A row \in EditedOnly(call'.args[2]) \cap DOMAIN result' :
            \/ /\ row \in DOMAIN call'.args[3]
               /\ call'.args[3][row] = result'[row]
            \/ call'.args[2].before_edit.suggestions = None
            \/ /\ row \in DOMAIN old_suggestions_for(call'.args[2])
               /\ old_suggestions_for(call'.args[2])[row] # result'[row]]_vars

\* An edited row with a suggestion before the edit was recorded, and another edited
\* row with the same suggestion before and after was not.
C31_Witness ==
    /\ Computed
    /\ call.args[3] = NoRows
    /\ call.args[2].inserted = None
    /\ IsSome(call.args[2].before_edit.suggestions)
    /\ \E row \in EditedOnly(call.args[2]) : row \in DOMAIN result
    /\ \E row \in EditedOnly(call.args[2]) : row \notin DOMAIN result

\* ---- C34
\* The background parses reparse spawned during the last handler.
Spawned == {k \in DOMAIN reparse_log : reparse_log[k].outcome = "timeout"}

InFlightMatchesFlag ==
    /\ Len(parse_tasks) <= 1
    /\ parsing_in_background <=> Len(parse_tasks) = 1
    /\ Cardinality(Spawned) <= 1
    /\ call.op = "parse_complete" =>
          (parsing_in_background <=> Spawned # {})

\* C34: at most one parse is in flight.  parsing_in_background is true exactly while
\* one detached parse task is outstanding, no handler spawns a second one, and the
\* completion of a background parse leaves the flag false unless the reparse it
\* re-enters, directly or through indentation edits, spawned the one next task.
C34_OneParseInFlight == InFlightMatchesFlag

\* The same, as long as no parse panicked.
C34_OneParseInFlightUnlessPanicked == ~panicked => InFlightMatchesFlag

\* ---- C36
\* The language server applies the notifications in order: DidOpen gives it the text
\* of a snapshot, a DidChange takes it from the text the changes were computed
\* against to the text of its snapshot.  Texts are named by their versions; -1 is a
\* text the buffer never had.
RECURSIVE Replayed(_, _)
Replayed(notifications, document) ==
    IF notifications = <<>> THEN document
    ELSE LET n == Head(notifications)
         IN  Replayed(Tail(notifications),
                 IF n.kind = "DidOpen" \/ n.since = document
                 THEN Some(n.buffer_version) ELSE Some(-1))

\* The language server applies the changes of one DidChange, one after the other.
RECURSIVE Changed(_, _)
Changed(document, changes) ==
    IF changes = <<>> THEN document
    ELSE Changed(SubSeq(document, 1, changes[1].range[1]) \o changes[1].text
                    \o SubSeq(document, changes[1].range[2] + 1, Len(document)),
                 Tail(changes))

\* C36: the notifications sent for one attachment are lossless and ordered.  The
\* first is DidOpen, every later one is a DidChange of the edits between the snapshot
\* sent before and its own, the versions sent increase strictly, and replaying the
\* notifications gives the text of the snapshot sent last, whatever snapshots were
\* overwritten in the channel; the changes of a DidChange, applied in order to the
\* text they were computed against, give the text of its snapshot.
C36_LosslessAndOrdered ==
    /\ \A i \in DOMAIN notified :
          /\ notified[i].kind = (IF i = 1 THEN "DidOpen" ELSE "DidChange")
          /\ i > 1 => /\ notified[i].version > notified[i - 1].version
                      /\ notified[i].since = Some(notified[i - 1].buffer_version)
    /\ notified # <<>> =>
          Replayed(notified, None) = Some(notified[Len(notified)].buffer_version)
    /\ call.op = "did_change" =>
          Changed(text_of(<<>>), result) = text_of(call.args[1])

\* The task sent a DidChange for a snapshot pushed two versions after the one it had
\* sent before: the snapshot between them was overwritten unread.
C36_Witness ==
    /\ call.op = "maintain_server"
    /\ Len(notified) = 2
    /\ notified[2].version = notified[1].version + 2
    /\ notified[2].buffer_version > notified[1].buffer_version

SaveCompleted == call.op = "save_completed" /\ call.args[2]

Reloading == call'.op = "reload_complete" /\ call'.args[2]

\* The reload is abandoned: nothing of the buffer changes, and Reloaded is not
\* emitted.
Abandoned ==
    /\ version' = version /\ text' = text
    /\ undo_stack' = undo_stack /\ redo_stack' = redo_stack
    /\ saved_version' = saved_version /\ saved_mtime' = saved_mtime
    /\ Count(events', "Reloaded") = 0

\* The diff was applied in one transaction, and the buffer is as saved at the
\* modification time the reload was started for.
Reloaded ==
    /\ version' = version + call'.args[4]
    /\ undo_stack' = undo_stack + (IF call'.args[4] > 0 THEN 1 ELSE 0)
    /\ saved_version' = version'
    /\ saved_mtime' = call'.args[1].new_mtime
    /\ Count(events', "Reloaded") = 1

\* C37: a reload in flight is abandoned if the buffer changes meanwhile.  When the
\* version changed between the file_updated that started the reload and the
\* moment its diff is applied, apply_diff returns false, the text, saved_version and
\* saved_mtime stay and Reloaded is not emitted; when it did not, the diff is
\* applied in one transaction, the buffer ends clean and saved_mtime is the new
\* mtime.
C37_AbandonedIfChangedMeanwhile ==
    [][Reloading =>
          IF version # call'.args[1].spawned_at
          THEN Abandoned
          ELSE Reloaded /\ ~is_dirty([version |-> version', file |-> file',
                                      saved_version |-> saved_version'])]_vars

\* What the version check of apply_diff covers: the changes made since diff()
\* captured base_version, which is after the text was loaded.
C37_AbandonedIfChangedSinceTheDiff ==
    [][Reloading =>
          IF version # call'.args[3]
          THEN Abandoned
          ELSE Reloaded /\ version' <= saved_version']_vars

====
